---- MODULE Spec2Model ----
(***************************************************************************)
(* A model of JisuiArc2PDF.py (archive of page images -> PDF) and of its   *)
(* inverse JisuiPDF2Arc.py (PDF -> archive of page images).                *)
(*                                                                         *)
(* Spec      one call of process_archive / process_pdf, one action per     *)
(*           step of the function, the external tools answering            *)
(*           nondeterministically.                                         *)
(* DecideSpec the selection between the converted and the original set    *)
(*           alone, at the end of the encode loop, over more page sizes    *)
(*           and thresholds.                                               *)
(* SortSpec  natural_sort_key and the sort of the discovered files, over   *)
(*           a set of file names in every enumeration order.               *)
(* MainSpec  main of both programs: the tools, the log file, the inputs,   *)
(*           and one call for each input; FairMainSpec is MainSpec with    *)
(*           the run never stopping while a statement is left.             *)
(* EncodeSpec the encode loop and the re-encode of the originals alone,    *)
(*           over more options and page heights, with every magick call    *)
(*           recorded.                                                     *)
(*                                                                         *)
(* File names are sequences of one-character strings.  Python floats are   *)
(* IEEE-754 doubles: a record [m, e] with m the 53 mantissa bits (most     *)
(* significant first) and value m * 2^(e-52); division and multiplication  *)
(* round to nearest, ties to even, as the hardware does.                   *)
(***************************************************************************)
EXTENDS Integers, Sequences, FiniteSets, TLC

(***************************************************************************)
(* Bounds of the model.                                                    *)
(***************************************************************************)
\* most files one archive holds
MaxFiles == 2
\* most file names handed to one sort in SortSpec
MaxSortLen == 2

(***************************************************************************)
(* Characters and strings.                                                 *)
(***************************************************************************)
None == "None"

Digits == {"0", "1", "2", "3", "4", "5", "6", "7", "8", "9"}

\* ord(c) for the characters the model's file names use
CodePoint ==
  [c \in {"#", "-", ".", "@", "_"} \cup Digits \cup
         {"G", "J", "P", "a", "e", "f", "g", "h", "i", "j", "l", "n", "p",
          "r", "t"} |->
     CASE c = "#" -> 35 [] c = "-" -> 45 [] c = "." -> 46
       [] c = "0" -> 48 [] c = "1" -> 49 [] c = "2" -> 50 [] c = "3" -> 51
       [] c = "4" -> 52 [] c = "5" -> 53 [] c = "6" -> 54 [] c = "7" -> 55
       [] c = "8" -> 56 [] c = "9" -> 57
       [] c = "@" -> 64
       [] c = "G" -> 71 [] c = "J" -> 74 [] c = "P" -> 80
       [] c = "_" -> 95
       [] c = "a" -> 97 [] c = "e" -> 101 [] c = "f" -> 102 [] c = "g" -> 103
       [] c = "h" -> 104 [] c = "i" -> 105 [] c = "j" -> 106 [] c = "l" -> 108
       [] c = "n" -> 110 [] c = "p" -> 112 [] c = "r" -> 114 [] c = "t" -> 116]

\* str.lower() of one character
LowerChar(c) ==
  CASE c = "G" -> "g" [] c = "J" -> "j" [] c = "P" -> "p" [] OTHER -> c

\* str.lower()
Lower(s) == [k \in 1..Len(s) |-> LowerChar(s[k])]

\* str.isdigit() of a non-empty run
IsDigit(c) == c \in Digits

CharLess(c1, c2) == CodePoint[c1] < CodePoint[c2]

\* a < b for two str values: the first differing character decides, a
\* proper prefix is smaller
StrLess(a, b) ==
  \E i \in 1..Len(b) :
    /\ \A j \in 1..(i - 1) : j <= Len(a) /\ a[j] = b[j]
    /\ i > Len(a) \/ (a[i] # b[i] /\ CharLess(a[i], b[i]))

\* the string s with every character of the set cs removed
Strip(s, cs) == SelectSeq(s, LAMBDA c : c \notin cs)

\* the decimal digits of n >= 0, most significant first
RECURSIVE Decimal(_)
Decimal(n) ==
  IF n < 10 THEN <<CHOOSE d \in Digits : CodePoint[d] = 48 + n>>
  ELSE Decimal(n \div 10) \o Decimal(n % 10)

\* str.zfill(width)
ZFill(s, width) ==
  IF Len(s) >= width THEN s ELSE [k \in 1..(width - Len(s)) |-> "0"] \o s

(***************************************************************************)
(* natural_sort_key and the sort of image_files.                           *)
(***************************************************************************)
\* the width of text.zfill(10)
ZFillWidth == 10

\* the characters re.sub(r'[-_@#]', '', ...) removes
Separators == {"-", "_", "@", "#"}

\* the length of the longest prefix of s whose characters are all digits
\* (digit = TRUE) or all non-digits (digit = FALSE)
RunLength(s, digit) ==
  LET others == {i \in 1..Len(s) : IsDigit(s[i]) # digit}
  IN IF others = {} THEN Len(s)
     ELSE (CHOOSE i \in others : \A j \in others : i <= j) - 1

\* re.split(r'(\d+)', s) without its empty pieces: the maximal digit and
\* non-digit runs of s, in order
RECURSIVE SplitRuns(_)
SplitRuns(s) ==
  IF s = <<>> THEN <<>>
  ELSE LET n == RunLength(s, IsDigit(s[1]))
       IN <<SubSeq(s, 1, n)>> \o SplitRuns(SubSeq(s, n + 1, Len(s)))

convert(text) ==
  IF IsDigit(text[1]) THEN ZFill(text, ZFillWidth)
  ELSE Strip(Lower(text), Separators)

natural_sort_key(s) ==
  LET runs == SplitRuns(s) IN [k \in 1..Len(runs) |-> convert(runs[k])]

\* k1 < k2 for two keys (lists of str), compared as lists are
KeyLess(k1, k2) ==
  \E i \in 1..Len(k2) :
    /\ \A j \in 1..(i - 1) : j <= Len(k1) /\ k1[j] = k2[j]
    /\ i > Len(k1) \/ (k1[i] # k2[i] /\ StrLess(k1[i], k2[i]))

\* the path x placed into the sorted list: before the first element whose key is
\* greater, hence after the elements of equal key (list.sort is stable)
RECURSIVE InsertByKey(_, _)
InsertByKey(x, sorted) ==
  IF sorted = <<>> THEN <<x>>
  ELSE IF KeyLess(natural_sort_key(x.name), natural_sort_key(sorted[1].name))
       THEN <<x>> \o sorted
  ELSE <<sorted[1]>> \o InsertByKey(x, Tail(sorted))

\* image_files.sort(key=lambda f: natural_sort_key(f.name))
RECURSIVE SortFrom(_, _)
SortFrom(files, sorted) ==
  IF files = <<>> THEN sorted
  ELSE SortFrom(Tail(files), InsertByKey(files[1], sorted))

SortByNaturalKey(files) == SortFrom(files, <<>>)

(***************************************************************************)
(* Python floats.                                                          *)
(***************************************************************************)
MantissaBits == 53

\* the member of a set of one value; the operators below take the value of
\* an expression they read more than once from such a set, which evaluates
\* it once
Only(S) == CHOOSE v \in S : TRUE

\* int.bit_length() of 0 <= n < 2^30
BitLen(n) == CHOOSE k \in 0..30 : n < 2^k /\ (k = 0 \/ 2^(k - 1) <= n)

\* the binary digits of n >= 0, most significant first (none for 0)
ToBits(n) == [i \in 1..BitLen(n) |-> (n \div 2^(BitLen(n) - i)) % 2]

Zeros(n) == [k \in 1..n |-> 0]

FZero == [m |-> Zeros(MantissaBits), e |-> 0]

IsFZero(x) == x.m[1] = 0

\* b + 1 for a sequence of binary digits, one longer when every digit is 1
Increment(b) ==
  LET zeros == {i \in 1..Len(b) : b[i] = 0}
      last == CHOOSE i \in zeros : \A j \in zeros : j <= i
  IN IF zeros = {} THEN <<1>> \o Zeros(Len(b))
     ELSE [i \in 1..Len(b) |-> IF i < last THEN b[i]
                                ELSE IF i = last THEN 1 ELSE 0]

\* the double nearest to bits * 2^(ex - (MantissaBits - 1)), bits holding
\* MantissaBits digits with bits[1] = 1, given whether the discarded rest is
\* above, at or below one half of the last place: ties go to the even mantissa
RoundNearestEven(bits, ex, rest) ==
  Only({LET up == rest = "above" \/ (rest = "half" /\ b[MantissaBits] = 1)
        IN IF ~up THEN [m |-> b, e |-> ex]
           ELSE Only({IF Len(inc) > MantissaBits
                      THEN [m |-> SubSeq(inc, 1, MantissaBits), e |-> ex + 1]
                      ELSE [m |-> inc, e |-> ex] :
                      inc \in {Increment(b)}}) :
        b \in {bits}})

\* float(n) for an int 0 <= n < 2^30: exact
FromInt(n) ==
  IF n = 0 THEN FZero
  ELSE [m |-> ToBits(n) \o Zeros(MantissaBits - BitLen(n)), e |-> BitLen(n) - 1]

\* the next k binary digits of r / den after the point, for 0 <= r < den, and
\* the remainder left (long division, the digits of the first half and then
\* those of the second)
RECURSIVE DivBits(_, _, _)
DivBits(r, den, k) ==
  IF k = 0 THEN [bits |-> <<>>, rem |-> r]
  ELSE IF k = 1
       THEN IF 2 * r >= den THEN [bits |-> <<1>>, rem |-> 2 * r - den]
            ELSE [bits |-> <<0>>, rem |-> 2 * r]
  ELSE Only({Only({[bits |-> first.bits \o second.bits, rem |-> second.rem] :
                      second \in {DivBits(first.rem, den, k - (k \div 2))}}) :
               first \in {DivBits(r, den, k \div 2)}})

\* c / o for two ints c >= 0, o > 0 (true division, correctly rounded); also
\* the value of a decimal literal c/o, which Python rounds the same way
FDivInt(c, o) ==
  IF c = 0 THEN FZero
  ELSE LET \* c / o = (num / dvs) * 2^(su - sd) with 1 <= num / dvs < 2
           su == IF c >= o THEN BitLen(c \div o) - 1 ELSE 0
           sd == IF c >= o THEN 0 ELSE BitLen(((o + c - 1) \div c) - 1)
       IN Only({LET num == scaled[1]
                    dvs == scaled[2]
                IN Only({RoundNearestEven(
                           <<1>> \o q.bits, scaled[3],
                           IF 2 * q.rem > dvs THEN "above"
                           ELSE IF 2 * q.rem = dvs THEN "half"
                           ELSE "below") :
                         q \in {DivBits(num - dvs, dvs, MantissaBits - 1)}}) :
                scaled \in {<<c * 2^sd, o * 2^su, su - sd>>}})

\* the int whose binary digits are b[lo..hi]
RECURSIVE BitsValue(_, _, _)
BitsValue(b, lo, hi) ==
  IF lo > hi THEN 0
  ELSE IF lo = hi THEN b[lo]
  ELSE BitsValue(b, lo, (lo + hi) \div 2) * 2^(hi - ((lo + hi) \div 2))
       + BitsValue(b, ((lo + hi) \div 2) + 1, hi)

\* the last width binary digits of v
FixedBits(v, width) == [i \in 1..width |-> (v \div 2^(width - i)) % 2]

\* the binary digits of mant * k for 53 digits mant and an int 0 < k < 2^16:
\* the product of each 13-digit limb, least significant first, with the carry
\* of the limb below it
MulBits(mant, k) ==
  Only({LET p0 == limbs[4] * k
            p1 == limbs[3] * k + (p0 \div 2^13)
            p2 == limbs[2] * k + (p1 \div 2^13)
            p3 == limbs[1] * k + (p2 \div 2^13)
        IN ToBits(p3) \o FixedBits(p2, 13) \o FixedBits(p1, 13)
           \o FixedBits(p0, 13) :
        limbs \in {<<BitsValue(mant, 1, 14), BitsValue(mant, 15, 27),
                     BitsValue(mant, 28, 40), BitsValue(mant, 41, 53)>>}})

\* x * k for a float x >= 0 and an int 0 <= k < 2^16 (float(k) is exact): the
\* exact product, rounded once
FMulInt(x, k) ==
  Only({IF IsFZero(v) \/ k = 0 THEN FZero
        ELSE Only({LET extra == Len(p) - MantissaBits
                       tail == SubSeq(p, MantissaBits + 1, Len(p))
                       left == IF extra = 0 \/ tail[1] = 0 THEN "below"
                               ELSE IF \E j \in 2..extra : tail[j] = 1
                                    THEN "above"
                               ELSE "half"
                   IN RoundNearestEven(SubSeq(p, 1, MantissaBits),
                                       v.e + extra, left) :
                   p \in {MulBits(v.m, k)}}) :
        v \in {x}})

BitLess(b1, b2) == b1 < b2

\* m1 < m2 for two mantissas of MantissaBits bits
MantissaLess(m1, m2) ==
  \E i \in 1..MantissaBits :
    /\ \A j \in 1..(i - 1) : m1[j] = m2[j]
    /\ BitLess(m1[i], m2[i])

\* x < y for two floats >= 0
FLess(x, y) ==
  \E v \in {x}, w \in {y} :
    IF IsFZero(w) THEN FALSE
    ELSE IF IsFZero(v) THEN TRUE
    ELSE v.e < w.e \/ (v.e = w.e /\ MantissaLess(v.m, w.m))

(***************************************************************************)
(* Paths.                                                                  *)
(***************************************************************************)
\* a file of the archive, extracted into the temporary directory
TempFile(name) == [dir |-> "temp", name |-> name]

\* f"{i:04d}.jpg" in one of the directories process_archive makes
NumberedFile(dir, n) ==
  [dir |-> dir, name |-> ZFill(Decimal(n), 4) \o <<".", "j", "p", "g">>]

\* the place of the last "." of name, 0 when it has none
LastDot(name) ==
  LET dots == {k \in 1..Len(name) : name[k] = "."}
  IN IF dots = {} THEN 0 ELSE CHOOSE k \in dots : \A j \in dots : j <= k

\* Path.suffix
Suffix(name) ==
  IF 1 < LastDot(name) /\ LastDot(name) < Len(name)
  THEN SubSeq(name, LastDot(name), Len(name)) ELSE <<>>

\* Path.stem
Stem(name) == SubSeq(name, 1, Len(name) - Len(Suffix(name)))

left_page_path(img_path) ==
  [dir |-> "split_pages",
   name |-> Stem(img_path.name)
            \o <<"_", "1", "_", "l", "e", "f", "t", ".", "j", "p", "g">>]

right_page_path(img_path) ==
  [dir |-> "split_pages",
   name |-> Stem(img_path.name)
            \o <<"_", "2", "_", "r", "i", "g", "h", "t", ".", "j", "p", "g">>]

jpeg_extensions ==
  {<<".", "j", "p", "g">>, <<".", "j", "p", "e", "g">>,
   <<".", "j", "f", "i", "f">>, <<".", "j", "p", "e">>}

IsJpeg(img_path) == Lower(Suffix(img_path.name)) \in jpeg_extensions

(***************************************************************************)
(* The inputs of the model.                                                *)
(***************************************************************************)
\* the image files archives hold: an archive of the model holds some of
\* the first MaxFiles of them
ArchiveFileList ==
  <<<<"p", "1", "0", ".", "p", "n", "g">>,
    <<"p", "2", ".", "j", "p", "g">>,
    <<"P", "1", ".", "J", "P", "G">>>>

ArchiveFiles ==
  {ArchiveFileList[k] : k \in {j \in 1..Len(ArchiveFileList) : j <= MaxFiles}}

\* the sequences of at most n distinct members of S: the orders in which
\* the file system may enumerate a set of at most n files
RECURSIVE Enumerations(_, _)
Enumerations(S, n) ==
  IF n = 0 THEN {<<>>}
  ELSE LET shorter == Enumerations(S, n - 1)
       IN shorter \cup
          {Append(pair[1], pair[2]) :
             pair \in {pr \in shorter \X S :
                         /\ Len(pr[1]) = n - 1
                         /\ \A k \in 1..Len(pr[1]) : pr[1][k] # pr[2]}}

\* get_image_dimensions' None, as a tuple like its other results
NoDimensions == <<>>

\* the answers of `magick identify -format "%w %h"`: a page exactly 1.2
\* times as wide as high, one a little wider, and a portrait page
DimensionCases == {<<120, 100>>, <<121, 100>>, <<100, 150>>}

\* the (original size, converted size) pairs of one page, in bytes: a page
\* that grows by 1.5% and one that grows by 2.5%
SizeCases == {<<1000000, 1015000>>, <<1000000, 1025000>>}

\* the values of --TotalCompressionThreshold, as the decimal fraction the
\* user types (101.5), or None
ThresholdCases == {None, <<1015, 10>>}

\* the default of --SaturationThreshold, the decimal fraction 0.05
DefaultSaturationThreshold == <<5, 100>>

\* the paper heights of calculate_target_height the model uses
paper_heights_mm == [A4 |-> 297, B5 |-> 257]

\* int(round((paper_height / 25.4) * target_dpi)): the quotient
\* paper_height * target_dpi * 5 / 127 is never half-way between two ints
PixelHeight(paper_height, target_dpi) ==
  (2 * paper_height * target_dpi * 5 + 127) \div (2 * 127)

\* calculate_target_height: the height, or the exit of line 139; an option
\* that is not given is 0 (--Height, --Dpi) or None (--PaperSize)
calculate_target_height(a) ==
  IF a.Height # 0 THEN [exit |-> FALSE, target_height |-> a.Height]
  ELSE IF a.PaperSize # None /\ a.Dpi # 0
       THEN [exit |-> FALSE,
             target_height |-> PixelHeight(paper_heights_mm[a.PaperSize], a.Dpi)]
  ELSE IF a.PaperSize # None \/ a.Dpi # 0
       THEN [exit |-> TRUE, target_height |-> 0]
  ELSE [exit |-> FALSE, target_height |-> PixelHeight(paper_heights_mm["A4"], 144)]

\* a page image as magick measures it: its height in pixels and the
\* `%[mean]` of its saturation channel, or no mean when that command fails
ColorImage == [height |-> 2000, mean |-> 32768, mean_ok |-> TRUE]

\* the settings of one run: --Binding is read only with --SplitPages and
\* --TotalCompressionThreshold only without --SkipCompression; the runs of
\* the model linearize only unsplit archives and encode with the defaults
ArgsCases ==
  {a \in [SplitPages : BOOLEAN, Binding : {"Right", "Left"},
          SkipCompression : BOOLEAN, TotalCompressionThreshold : ThresholdCases,
          Linearize : BOOLEAN,
          Deskew : {FALSE}, Trim : {FALSE}, GrayscaleLevel : {None},
          AutoContrast : {FALSE}, ColorContrast : {None},
          SaturationThreshold : {DefaultSaturationThreshold},
          Height : {0}, PaperSize : {None}, Dpi : {0}] :
     /\ ~a.SplitPages => a.Binding = "Right"
     /\ a.SkipCompression => a.TotalCompressionThreshold = None
     /\ a.Linearize => ~a.SplitPages}

(***************************************************************************)
(* The state.                                                              *)
(***************************************************************************)
VARIABLES
  tool,                  \* the program that runs: "JisuiArc2PDF" or "JisuiPDF2Arc"
  args,                  \* the parsed arguments
  log_file_path,         \* TRUE when main resolved a log file, FALSE for None
  pc,                    \* the statement process_archive / process_pdf is at
  temp_dir,              \* TRUE while the temporary directory exists
  image_files,           \* the page sources, in page order
  processed_image_files, \* the splitter's output list
  idx,                   \* the loops' position in the list they walk (from 1)
  dimensions,            \* the splitter's (width, height) of the page at idx
  files_for_pdf,
  conversion_results,
  skipped_files,
  original_count,
  converted_count,
  use_converted,
  total_original_size,
  total_converted_size,
  exception,             \* the exception that ended the try block, or None
  imported,              \* the page lists `pdfcpu import` was run with: none or one
  output_pdf,            \* the destination: "old" (a prior output) or "new"
  log,                   \* the records appended to the log file
  primary_failed,        \* pages whose height lookup or primary encode failed
  extracted_files,       \* process_pdf: the number of files pdfcpu extracted
  zip_output,            \* process_pdf: TRUE once the ZIP archive is written
  sort_input,            \* SortSpec: the names as enumerated
  sort_output,           \* SortSpec: the names as sorted, or None
  images,                \* the kinds of page image the archives hold
  magick_calls,          \* the encode commands run so far, in order
  main_pc,               \* the statement main is at
  exit_status,           \* the status main exits with
  tools,                 \* the keys of the tools main has found
  unique_files,          \* the inputs main resolved, in processing order
  archive_path,          \* the loop variable of main: a position in unique_files
  console,               \* the lines printed that the properties read
  target_height,         \* calculate_target_height's result
  archive_files,         \* the image files each input archive holds
  outputs                \* the inputs whose destination holds a new file

archiveVars ==
  <<image_files, processed_image_files, idx, dimensions, files_for_pdf,
    conversion_results, skipped_files, original_count, converted_count,
    use_converted, total_original_size, total_converted_size, imported,
    primary_failed>>

pdfVars == <<extracted_files, zip_output>>

sortVars == <<sort_input, sort_output>>

encodeVars == <<images, magick_calls>>

\* the locals of main and the inputs' contents, which process_archive
\* and process_pdf only read
loopVars ==
  <<main_pc, exit_status, tools, unique_files, archive_path, target_height,
    archive_files>>

mainVars == <<loopVars, console, outputs>>

vars ==
  <<tool, args, log_file_path, pc, temp_dir, exception, output_pdf, log,
    archiveVars, pdfVars, sortVars, encodeVars, mainVars>>

\* the values before `files_for_pdf = []` ... `use_converted = False`
Unset ==
  /\ image_files = <<>>
  /\ processed_image_files = <<>>
  /\ idx = 0
  /\ dimensions = NoDimensions
  /\ files_for_pdf = <<>>
  /\ conversion_results = <<>>
  /\ skipped_files = <<>>
  /\ original_count = 0
  /\ converted_count = 0
  /\ use_converted = FALSE
  /\ total_original_size = 0
  /\ total_converted_size = 0
  /\ imported = {}
  /\ primary_failed = 0
  /\ extracted_files = 0
  /\ zip_output = FALSE

\* RequiredTools that never looks for qpdf
RequiredToolsWithoutLinearizer(program, a) ==
  IF program = "JisuiPDF2Arc" THEN <<"sevenzip", "pdfcpu">>
  ELSE <<"sevenzip", "magick", "pdfcpu">>

\* the keys of the tools a run needs, in the order main looks for them
RequiredTools(program, a) ==
  IF program = "JisuiPDF2Arc" THEN <<"sevenzip", "pdfcpu">>
  ELSE IF a.Linearize THEN <<"sevenzip", "magick", "pdfcpu", "qpdf">>
  ELSE <<"sevenzip", "magick", "pdfcpu">>

\* main in its loop, at the call for the only input of the run
InTheLoop ==
  /\ main_pc = "loop"
  /\ exit_status = 0
  /\ tools = {RequiredTools(tool, args)[k] :
                k \in 1..Len(RequiredTools(tool, args))}
  /\ unique_files = <<1>>
  /\ archive_path = 1
  /\ console = <<>>
  /\ target_height = IF tool = "JisuiArc2PDF"
                     THEN calculate_target_height(args).target_height ELSE 0
  /\ outputs = {}

Init ==
  /\ tool \in {"JisuiArc2PDF", "JisuiPDF2Arc"}
  /\ args \in IF tool = "JisuiArc2PDF" THEN ArgsCases ELSE {None}
  /\ log_file_path \in BOOLEAN
  /\ pc = "call"
  /\ temp_dir = FALSE
  /\ exception = None
  /\ output_pdf = "old"
  /\ log = <<>>
  /\ Unset
  /\ sort_input = <<>>
  /\ sort_output = None
  /\ images = {ColorImage}
  /\ magick_calls = <<>>
  /\ InTheLoop
  /\ archive_files \in IF tool = "JisuiArc2PDF"
                        THEN {<<files>> : files \in SUBSET ArchiveFiles}
                        ELSE {<<{}>>}

\* print(text) about the input the loop of main is at
Printed(text) == Append(console, [text |-> text, archive |-> archive_path])

\* `raise` inside the try block of process_archive
Raise(e) ==
  /\ exception' = e
  /\ pc' = "except"

(***************************************************************************)
(* process_archive.                                                        *)
(***************************************************************************)
\* IsSpread with >= for >
IsSpreadFromRatio(width, height) ==
  ~FLess(FromInt(width), FMulInt(FDivInt(12, 10), height))

\* width > height * 1.2
IsSpread(width, height) ==
  FLess(FMulInt(FDivInt(12, 10), height), FromInt(width))

\* SplitPair without the swap of Right binding
SplitPairUnswapped(binding, img_path) ==
  <<left_page_path(img_path), right_page_path(img_path)>>

\* the two halves of a spread in the order of the binding
SplitPair(binding, img_path) ==
  IF binding = "Right"
  THEN <<right_page_path(img_path), left_page_path(img_path)>>
  ELSE <<left_page_path(img_path), right_page_path(img_path)>>

\* SumOf taken when only the first result has landed
SumOfFirst(results, field) ==
  IF results = <<>> THEN 0 ELSE results[1][field]

\* sum(r[field] for r in results)
RECURSIVE SumOf(_, _)
SumOf(results, field) ==
  IF results = <<>> THEN 0
  ELSE results[1][field] + SumOf(Tail(results), field)

\* float(text) of the threshold argument
ParseThreshold(threshold) == FDivInt(threshold[1], threshold[2])

\* UseConverted with <= 1.02 for < 1.02
UseConvertedUpTo(threshold, original_total, converted_total) ==
  IF threshold # None
  THEN /\ original_total > 0
       /\ FLess(FMulInt(FDivInt(converted_total, original_total), 100),
                ParseThreshold(threshold))
  ELSE \/ original_total = 0
       \/ ~FLess(FDivInt(102, 100), FDivInt(converted_total, original_total))

\* UseConverted whose explicit threshold treats an original total of zero as
\* the default rule does
UseConvertedZeroAsDefault(threshold, original_total, converted_total) ==
  IF original_total = 0 THEN TRUE
  ELSE IF threshold # None
  THEN FLess(FMulInt(FDivInt(converted_total, original_total), 100),
             ParseThreshold(threshold))
  ELSE FLess(FDivInt(converted_total, original_total), FDivInt(102, 100))

\* the selection: use_converted after lines 326-338
UseConverted(threshold, original_total, converted_total) ==
  IF threshold # None
  THEN /\ original_total > 0
       /\ FLess(FMulInt(FDivInt(converted_total, original_total), 100),
                ParseThreshold(threshold))
  ELSE \/ original_total = 0
       \/ FLess(FDivInt(converted_total, original_total), FDivInt(102, 100))

\* ConvertedFiles that takes the original of every page but the first
ConvertedFilesMixed(results) ==
  [k \in 1..Len(results) |->
     IF k = 1 THEN results[k].converted_path
     ELSE NumberedFile("passthrough", k - 1)]

\* ConvertedFiles from the last result to the first
ConvertedFilesReversed(results) ==
  [k \in 1..Len(results) |-> results[Len(results) + 1 - k].converted_path]

\* [str(r['converted_path']) for r in conversion_results]
ConvertedFiles(results) ==
  [k \in 1..Len(results) |-> results[k].converted_path]

\* get_image_saturation: the mean over 65535, or 0.5 when magick fails
get_image_saturation(image) ==
  IF image.mean_ok THEN FDivInt(image.mean, 65535) ELSE FDivInt(1, 2)

\* IsGrayscale that also holds for a saturation equal to the threshold
IsGrayscaleUpTo(a, saturation) ==
  ~FLess(ParseThreshold(a.SaturationThreshold), saturation)

\* saturation < args.SaturationThreshold
IsGrayscale(a, saturation) ==
  FLess(saturation, ParseThreshold(a.SaturationThreshold))

\* the -deskew and -trim operations, common to both encodes
GeometryOps(a) ==
  (IF a.Deskew THEN <<"-deskew", "40%">> ELSE <<>>)
  \o (IF a.Trim THEN <<"-fuzz", "{Fuzz}", "-trim", "+repage">> ELSE <<>>)

\* ResizeOps that also resizes a page exactly target_height high
ResizeOpsFromEqual(target, original_height) ==
  IF target > 0 /\ original_height >= target
  THEN <<"-resize", "x{target_height}">> ELSE <<>>

\* `if target_height > 0 and original_height > target_height`
ResizeOps(target, original_height) ==
  IF target > 0 /\ original_height > target
  THEN <<"-resize", "x{target_height}">> ELSE <<>>

\* the operations chosen by the page's saturation, common to both encodes
ColorOps(a, saturation) ==
  IF IsGrayscale(a, saturation)
  THEN <<"-colorspace", "Gray">>
       \o (IF a.GrayscaleLevel # None THEN <<"-level", a.GrayscaleLevel>>
           ELSE <<>>)
  ELSE IF a.AutoContrast THEN <<"-normalize">>
  ELSE IF a.ColorContrast # None
       THEN <<"-brightness-contrast", a.ColorContrast>>
  ELSE <<>>

\* the operations of the primary encode's magick_cmd, between the source
\* and the destination; the values of options are written as their
\* placeholders
magick_cmd(a, target, original_height, saturation) ==
  GeometryOps(a) \o ResizeOps(target, original_height)
  \o <<"-density", "{target_dpi}", "-quality", "{Quality}">>
  \o ColorOps(a, saturation)

\* StoredSaturation that takes the default of a failed measurement instead
StoredSaturationDefault(r) == FDivInt(1, 2)

\* r['saturation'] of a conversion result
StoredSaturation(r) == r.saturation

\* the operations of the re-encode's magick_cmd for the result r
passthrough_magick_cmd(a, r) ==
  GeometryOps(a) \o ColorOps(a, StoredSaturation(r))
  \o <<"-quality", "{Quality}">>

\* the call of get_image_saturation for source, a page original_height
\* pixels high
SaturationCall(source, original_height) ==
  [stage |-> "saturation", source |-> source, ops |-> <<>>,
   original_height |-> original_height]

\* the run of magick with ops on source in the named encode; the re-encode
\* does not read the page's height, written 0
EncodeCall(stage, source, ops, original_height) ==
  [stage |-> stage, source |-> source, ops |-> ops,
   original_height |-> original_height]

\* IsEmpty that never holds: the three checks left out
IsEmptyUnchecked(list) == FALSE

\* not files_for_pdf / not image_files / not conversion_results
IsEmpty(list) == list = <<>>

\* Rmtree that removes nothing
RmtreeSkipped(exists) == exists

\* shutil.rmtree(temp_dir, ignore_errors=True): the directory is gone
Rmtree(exists) == FALSE

MakeTempDir ==
  /\ pc = "call"
  /\ tool = "JisuiArc2PDF"
  /\ console' = Printed("Processing")
  /\ temp_dir' = TRUE
  /\ pc' = "extract"
  /\ UNCHANGED <<tool, args, log_file_path, exception, output_pdf, log,
                 archiveVars, pdfVars, sortVars, encodeVars, loopVars, outputs>>

\* 7z e archive -o temp_dir, at most 300 s
Extract ==
  /\ pc = "extract"
  /\ \E result \in {"ok", "CalledProcessError", "TimeoutExpired"} :
       IF result = "ok" THEN pc' = "discover" /\ UNCHANGED exception
       ELSE Raise(result)
  /\ UNCHANGED <<tool, args, log_file_path, temp_dir, output_pdf, log,
                 archiveVars, pdfVars, sortVars, encodeVars, mainVars>>

\* os.walk, is_image and the sort: files are the files is_image accepts, in
\* the order os.walk yields them
Discover ==
  /\ pc = "discover"
  /\ \E files \in Enumerations(archive_files[archive_path], MaxFiles) :
       /\ Len(files) = Cardinality(archive_files[archive_path])
       /\ image_files' =
            SortByNaturalKey([k \in 1..Len(files) |-> TempFile(files[k])])
  /\ pc' = IF args.SplitPages THEN "split" ELSE "check_images"
  /\ UNCHANGED <<tool, args, log_file_path, temp_dir, exception, output_pdf,
                 log, processed_image_files, idx, dimensions, files_for_pdf,
                 conversion_results, skipped_files, original_count,
                 converted_count, use_converted, total_original_size,
                 total_converted_size, imported, primary_failed, pdfVars,
                 sortVars, encodeVars, mainVars>>

\* processed_image_files = [] and split_dir.mkdir()
SplitBegin ==
  /\ pc = "split"
  /\ \E mkdir \in {"ok", "FileExistsError"} :
       IF mkdir = "ok"
       THEN /\ processed_image_files' = <<>>
            /\ idx' = 1
            /\ pc' = "split_dimensions"
            /\ UNCHANGED exception
       ELSE /\ Raise(mkdir)
            /\ UNCHANGED <<processed_image_files, idx>>
  /\ UNCHANGED <<tool, args, log_file_path, temp_dir, output_pdf, log,
                 image_files, dimensions, files_for_pdf, conversion_results,
                 skipped_files, original_count, converted_count,
                 use_converted, total_original_size, total_converted_size,
                 imported, primary_failed, pdfVars, sortVars, encodeVars, mainVars>>

\* dimensions = get_image_dimensions(img_path)
SplitDimensions ==
  /\ pc = "split_dimensions"
  /\ idx <= Len(image_files)
  /\ \/ dimensions' = NoDimensions
     \/ \E d \in DimensionCases : dimensions' = d
  /\ pc' = "split_page"
  /\ UNCHANGED <<tool, args, log_file_path, temp_dir, exception, output_pdf,
                 log, image_files, processed_image_files, idx, files_for_pdf,
                 conversion_results, skipped_files, original_count,
                 converted_count, use_converted, total_original_size,
                 total_converted_size, imported, primary_failed, pdfVars,
                 sortVars, encodeVars, mainVars>>

\* the results of the two crops of a page with dimensions dims: they run
\* only for a spread, and fail with an error or leave a half missing
CropResults(dims) ==
  IF dims # NoDimensions /\ IsSpread(dims[1], dims[2])
  THEN {"ok", "CalledProcessError", "output missing"}
  ELSE {"ok"}

\* SplitOutput that passes the page on when it cannot be measured or cropped
SplitOutputKeepingFailed(binding, img_path, dims, crop) ==
  IF dims = NoDimensions THEN <<img_path>>
  ELSE IF IsSpread(dims[1], dims[2])
       THEN IF crop = "ok" THEN SplitPair(binding, img_path)
            ELSE <<img_path>>
  ELSE <<img_path>>

\* the pages one turn of the splitter's loop appends for img_path
SplitOutput(binding, img_path, dims, crop) ==
  IF dims = NoDimensions THEN <<>>
  ELSE IF IsSpread(dims[1], dims[2])
       THEN IF crop = "ok" THEN SplitPair(binding, img_path)
            ELSE <<>>
  ELSE <<img_path>>

\* the warning one turn of the splitter's loop prints, "" for none
SplitWarning(dims, crop) ==
  IF dims = NoDimensions THEN "Warning: Could not get dimensions. Skipping page."
  ELSE IF crop = "output missing" THEN "Warning: Failed to split. Skipping page."
  ELSE IF crop = "CalledProcessError"
       THEN "Warning: Error splitting. It will be skipped."
  ELSE ""

\* the rest of one turn of the splitter's loop: crop a spread into its two
\* halves, pass any other page on, drop a page that could not be measured or
\* cropped
SplitPage ==
  /\ pc = "split_page"
  /\ \E crop \in CropResults(dimensions) :
       /\ processed_image_files' =
            processed_image_files
            \o SplitOutput(args.Binding, image_files[idx], dimensions, crop)
       /\ console' = IF SplitWarning(dimensions, crop) = ""
                     THEN console ELSE Printed(SplitWarning(dimensions, crop))
  /\ idx' = idx + 1
  /\ dimensions' = NoDimensions
  /\ pc' = "split_dimensions"
  /\ UNCHANGED <<tool, args, log_file_path, temp_dir, exception, output_pdf,
                 log, image_files, files_for_pdf, conversion_results,
                 skipped_files, original_count, converted_count,
                 use_converted, total_original_size, total_converted_size,
                 imported, primary_failed, pdfVars, sortVars, encodeVars, loopVars, outputs>>

\* image_files = processed_image_files
SplitEnd ==
  /\ pc = "split_dimensions"
  /\ idx > Len(image_files)
  /\ image_files' = processed_image_files
  /\ idx' = 0
  /\ pc' = "check_images"
  /\ UNCHANGED <<tool, args, log_file_path, temp_dir, exception, output_pdf,
                 log, processed_image_files, dimensions, files_for_pdf,
                 conversion_results, skipped_files, original_count,
                 converted_count, use_converted, total_original_size,
                 total_converted_size, imported, primary_failed, pdfVars,
                 sortVars, encodeVars, mainVars>>

\* `if not image_files: raise`, the empty lists and counts of lines 236-241,
\* and the mkdir of the mode's directory
CheckImages ==
  /\ pc = "check_images"
  /\ IF IsEmpty(image_files)
     THEN /\ Raise("ValueError: No image files found in the archive.")
          /\ UNCHANGED idx
     ELSE \E mkdir \in {"ok", "FileExistsError"} :
            IF mkdir = "ok"
            THEN /\ idx' = 1
                 /\ pc' = IF args.SkipCompression THEN "skip_compression"
                          ELSE "convert"
                 /\ UNCHANGED exception
            ELSE /\ Raise(mkdir)
                 /\ UNCHANGED idx
  /\ UNCHANGED <<tool, args, log_file_path, temp_dir, output_pdf, log,
                 image_files, processed_image_files, dimensions,
                 files_for_pdf, conversion_results, skipped_files,
                 original_count, converted_count, use_converted,
                 total_original_size, total_converted_size, imported,
                 primary_failed, pdfVars, sortVars, encodeVars, mainVars>>

\* one turn of the --SkipCompression loop
SkipCompressionPage ==
  /\ pc = "skip_compression"
  /\ idx <= Len(image_files)
  /\ IF IsJpeg(image_files[idx])
     THEN /\ files_for_pdf' = Append(files_for_pdf, image_files[idx])
          /\ UNCHANGED skipped_files
     ELSE \E result \in {"ok", "CalledProcessError"} :
            IF result = "ok"
            THEN /\ files_for_pdf' =
                      Append(files_for_pdf,
                             NumberedFile("sc_passthrough", idx - 1))
                 /\ UNCHANGED skipped_files
            ELSE /\ skipped_files' = Append(skipped_files, image_files[idx])
                 /\ UNCHANGED files_for_pdf
  /\ idx' = idx + 1
  /\ UNCHANGED <<tool, args, log_file_path, pc, temp_dir, exception,
                 output_pdf, log, image_files, processed_image_files,
                 dimensions, conversion_results, original_count,
                 converted_count, use_converted, total_original_size,
                 total_converted_size, imported, primary_failed, pdfVars,
                 sortVars, encodeVars, mainVars>>

\* original_count = len(image_files)
SkipCompressionEnd ==
  /\ pc = "skip_compression"
  /\ idx > Len(image_files)
  /\ original_count' = Len(image_files)
  /\ idx' = 0
  /\ pc' = "check_files"
  /\ UNCHANGED <<tool, args, log_file_path, temp_dir, exception, output_pdf,
                 log, image_files, processed_image_files, dimensions,
                 files_for_pdf, conversion_results, skipped_files,
                 converted_count, use_converted, total_original_size,
                 total_converted_size, imported, primary_failed, pdfVars,
                 sortVars, encodeVars, mainVars>>

\* one turn of the primary encode loop: the page is skipped when its height
\* cannot be read or magick fails, and else recorded with its two sizes
ConvertPage ==
  /\ pc = "convert"
  /\ idx <= Len(image_files)
  /\ \/ \* get_image_height returned None
        /\ skipped_files' = Append(skipped_files, image_files[idx])
        /\ primary_failed' = primary_failed + 1
        /\ UNCHANGED <<conversion_results, magick_calls>>
     \/ \E image \in images :
          LET saturation == get_image_saturation(image)
              ops == magick_cmd(args, target_height, image.height, saturation)
          IN /\ magick_calls' =
                  magick_calls
                  \o <<SaturationCall(image_files[idx], image.height),
                       EncodeCall("primary", image_files[idx], ops,
                                  image.height)>>
             /\ \/ \* magick failed or left no output
                   /\ skipped_files' =
                        Append(skipped_files, image_files[idx])
                   /\ primary_failed' = primary_failed + 1
                   /\ UNCHANGED conversion_results
                \/ /\ \E size \in SizeCases :
                        conversion_results' =
                          Append(conversion_results,
                                 [original_path |-> image_files[idx],
                                  converted_path |->
                                    NumberedFile("converted", idx - 1),
                                  original_size |-> size[1],
                                  converted_size |-> size[2],
                                  saturation |-> saturation])
                   /\ UNCHANGED <<skipped_files, primary_failed>>
  /\ idx' = idx + 1
  /\ UNCHANGED <<tool, args, log_file_path, pc, temp_dir, exception,
                 output_pdf, log, image_files, processed_image_files,
                 dimensions, files_for_pdf, original_count, converted_count,
                 use_converted, total_original_size, total_converted_size,
                 imported, pdfVars, sortVars, images, mainVars>>

\* after the loop: `if not conversion_results: raise`, the totals, the
\* selection, and either the converted set or the start of the re-encode
Decide ==
  /\ pc = "convert"
  /\ idx > Len(image_files)
  /\ IF IsEmpty(conversion_results)
     THEN /\ Raise("ValueError: All image files failed to convert.")
          /\ UNCHANGED <<idx, files_for_pdf, converted_count, use_converted,
                         total_original_size, total_converted_size>>
     ELSE \E decision \in
               {UseConverted(args.TotalCompressionThreshold,
                             SumOf(conversion_results, "original_size"),
                             SumOf(conversion_results, "converted_size"))} :
          /\ total_original_size' = SumOf(conversion_results, "original_size")
          /\ total_converted_size' = SumOf(conversion_results, "converted_size")
          /\ use_converted' = decision
          /\ IF decision
             THEN /\ files_for_pdf' = ConvertedFiles(conversion_results)
                  /\ converted_count' = Len(ConvertedFiles(conversion_results))
                  /\ idx' = 0
                  /\ pc' = "check_files"
                  /\ UNCHANGED exception
             ELSE /\ \E mkdir \in {"ok", "FileExistsError"} :
                       IF mkdir = "ok"
                       THEN /\ idx' = 1
                            /\ pc' = "fallback"
                            /\ UNCHANGED exception
                       ELSE /\ Raise(mkdir)
                            /\ UNCHANGED idx
                  /\ UNCHANGED <<files_for_pdf, converted_count>>
  /\ UNCHANGED <<tool, args, log_file_path, temp_dir, output_pdf, log,
                 image_files, processed_image_files, dimensions,
                 conversion_results, skipped_files, original_count, imported,
                 primary_failed, pdfVars, sortVars, encodeVars, mainVars>>

\* one turn of the re-encode of the originals
FallbackPage ==
  /\ pc = "fallback"
  /\ idx <= Len(conversion_results)
  /\ magick_calls' =
       Append(magick_calls,
              EncodeCall("passthrough", conversion_results[idx].original_path,
                         passthrough_magick_cmd(args, conversion_results[idx]),
                         0))
  /\ \E result \in {"ok", "CalledProcessError"} :
       IF result = "ok"
       THEN /\ files_for_pdf' =
                 Append(files_for_pdf, NumberedFile("passthrough", idx - 1))
            /\ UNCHANGED skipped_files
       ELSE /\ skipped_files' =
                 Append(skipped_files, conversion_results[idx].original_path)
            /\ UNCHANGED files_for_pdf
  /\ idx' = idx + 1
  /\ UNCHANGED <<tool, args, log_file_path, pc, temp_dir, exception,
                 output_pdf, log, image_files, processed_image_files,
                 dimensions, conversion_results, original_count,
                 converted_count, use_converted, total_original_size,
                 total_converted_size, imported, primary_failed, pdfVars,
                 sortVars, images, mainVars>>

\* original_count = len(files_for_pdf)
FallbackEnd ==
  /\ pc = "fallback"
  /\ idx > Len(conversion_results)
  /\ original_count' = Len(files_for_pdf)
  /\ idx' = 0
  /\ pc' = "check_files"
  /\ UNCHANGED <<tool, args, log_file_path, temp_dir, exception, output_pdf,
                 log, image_files, processed_image_files, dimensions,
                 files_for_pdf, conversion_results, skipped_files,
                 converted_count, use_converted, total_original_size,
                 total_converted_size, imported, primary_failed, pdfVars,
                 sortVars, encodeVars, mainVars>>

\* `if not files_for_pdf: raise`
CheckFiles ==
  /\ pc = "check_files"
  /\ IF IsEmpty(files_for_pdf)
     THEN Raise("ValueError: No image files were successfully prepared for the PDF.")
     ELSE pc' = "import" /\ UNCHANGED exception
  /\ UNCHANGED <<tool, args, log_file_path, temp_dir, output_pdf, log,
                 archiveVars, pdfVars, sortVars, encodeVars, mainVars>>

\* temp_pdf_path that is the destination itself
temp_pdf_path_at_destination == "output_pdf_path"

\* temp_pdf_path = temp_dir / "temp.pdf": the directory the PDF is built in
temp_pdf_path == "temp_dir"

\* pdfcpu import temp_pdf_path files_for_pdf: the PDF is written at
\* temp_pdf_path
Import ==
  /\ pc = "import"
  /\ imported' = {files_for_pdf}
  /\ output_pdf' = IF temp_pdf_path = "output_pdf_path" THEN "new"
                   ELSE output_pdf
  /\ \E result \in {"ok", "CalledProcessError"} :
       IF result = "ok" THEN pc' = "viewerpref" /\ UNCHANGED exception
       ELSE Raise(result)
  /\ UNCHANGED <<tool, args, log_file_path, temp_dir, log,
                 image_files, processed_image_files, idx, dimensions,
                 files_for_pdf, conversion_results, skipped_files,
                 original_count, converted_count, use_converted,
                 total_original_size, total_converted_size, primary_failed,
                 pdfVars, sortVars, encodeVars, mainVars>>

\* pdfcpu viewerpref set: its failure is a warning
ViewerPref ==
  /\ pc = "viewerpref"
  /\ output_pdf' = IF temp_pdf_path = "output_pdf_path" THEN "new"
                   ELSE output_pdf
  /\ pc' = "optimize"
  /\ UNCHANGED <<tool, args, log_file_path, temp_dir, exception,
                 log, archiveVars, pdfVars, sortVars, encodeVars, mainVars>>

\* pdfcpu optimize temp_pdf_path, in place
Optimize ==
  /\ pc = "optimize"
  /\ output_pdf' = IF temp_pdf_path = "output_pdf_path" THEN "new"
                   ELSE output_pdf
  /\ \E result \in {"ok", "CalledProcessError"} :
       IF result = "ok"
       THEN /\ pc' = IF args.Linearize THEN "linearize" ELSE "move"
            /\ UNCHANGED exception
       ELSE Raise(result)
  /\ UNCHANGED <<tool, args, log_file_path, temp_dir, log,
                 archiveVars, pdfVars, sortVars, encodeVars, mainVars>>

\* qpdf --linearize
Linearize ==
  /\ pc = "linearize"
  /\ \E result \in {"ok", "CalledProcessError"} :
       IF result = "ok" THEN pc' = "move" /\ UNCHANGED exception
       ELSE Raise(result)
  /\ UNCHANGED <<tool, args, log_file_path, temp_dir, output_pdf, log,
                 archiveVars, pdfVars, sortVars, encodeVars, mainVars>>

\* shutil.move to the destination and os.utime: a PermissionError of either
\* goes to the handler of the locked destination, any other error to the
\* handler of the archive
Move ==
  /\ pc = "move"
  /\ \E result \in {"ok", "move PermissionError", "move OSError",
                    "utime PermissionError"} :
       /\ output_pdf' = IF result \in {"ok", "utime PermissionError"}
                        THEN "new" ELSE output_pdf
       /\ outputs' = IF result \in {"ok", "utime PermissionError"}
                     THEN outputs \cup {archive_path} ELSE outputs
       /\ console' = IF result = "ok" THEN Printed("Success! PDF created")
                     ELSE console
       /\ IF result = "ok" THEN pc' = "log" /\ UNCHANGED exception
          ELSE IF result = "move OSError" THEN Raise("OSError")
          ELSE pc' = "locked" /\ exception' = "PermissionError"
  /\ UNCHANGED <<tool, args, log_file_path, temp_dir, log, archiveVars,
                 pdfVars, sortVars, encodeVars, loopVars>>

\* FailedRecord that reports the archive as done
FailedRecordAsSuccess ==
  [Status |-> "Success", Source |-> archive_path,
   Error |-> None,
   Images |-> None, Converted |-> None, Originals |-> None, Skipped |-> None]

\* the record of the locked destination
FailedRecord ==
  [Status |-> "Failed", Source |-> archive_path,
   Error |-> "Failed to write to output file because it was in use by another process.",
   Images |-> None, Converted |-> None, Originals |-> None, Skipped |-> None]

\* LogStatus that reports one skipped page as "Success"
LogStatusFromTwo(skipped_count) ==
  IF skipped_count > 1 THEN "Success with pages skipped" ELSE "Success"

\* "Success with pages skipped" if skipped_count > 0 else "Success"
LogStatus(skipped_count) ==
  IF skipped_count > 0 THEN "Success with pages skipped" ELSE "Success"

\* the record of a finished archive
SuccessRecord ==
  [Status |-> LogStatus(Len(skipped_files)), Source |-> archive_path,
   Error |-> None,
   Images |-> Len(image_files), Converted |-> converted_count,
   Originals |-> original_count, Skipped |-> Len(skipped_files)]

\* a failed write of the log whose exception goes on to the handler of the
\* archive
LogWriteFailureEscaping(lines, warning) ==
  lines \o <<[text |-> warning, archive |-> archive_path],
             [text |-> "Error processing", archive |-> archive_path]>>

\* except Exception around the write of the log: the warning is printed and
\* nothing else happens
LogWriteFailure(lines, warning) ==
  Append(lines, [text |-> warning, archive |-> archive_path])

\* `if log_file_path:` and the append of record to the log file, which may
\* fail; lines is what the caller has printed by then
WriteRecord(record, lines, warning) ==
  IF log_file_path
  THEN \E written \in BOOLEAN :
         /\ log' = IF written THEN Append(log, record) ELSE log
         /\ console' = IF written THEN lines
                       ELSE LogWriteFailure(lines, warning)
  ELSE /\ UNCHANGED log
       /\ console' = lines

\* the handler of PermissionError: the "Failed" record, then `return`
LogLocked ==
  /\ pc = "locked"
  /\ WriteRecord(FailedRecord,
                 Printed("Warning: Could not write to PDF file"),
                 "Warning: Failed to write error to log file")
  /\ pc' = "finally"
  /\ UNCHANGED <<tool, args, log_file_path, temp_dir, exception, output_pdf,
                 archiveVars, pdfVars, sortVars, encodeVars, loopVars, outputs>>

\* the record of lines 498-590
WriteLog ==
  /\ pc = "log"
  /\ WriteRecord(SuccessRecord, console,
                 "Warning: Failed to write to log file")
  /\ pc' = "finally"
  /\ UNCHANGED <<tool, args, log_file_path, temp_dir, exception, output_pdf,
                 archiveVars, pdfVars, sortVars, encodeVars, loopVars, outputs>>

\* except Exception as e: print
Except ==
  /\ pc = "except"
  /\ console' = Printed("Error processing")
  /\ pc' = "finally"
  /\ UNCHANGED <<tool, args, log_file_path, temp_dir, exception, output_pdf,
                 log, archiveVars, pdfVars, sortVars, encodeVars, loopVars, outputs>>

\* finally: shutil.rmtree(temp_dir, ignore_errors=True)
Finally ==
  /\ pc = "finally"
  /\ temp_dir' = Rmtree(temp_dir)
  /\ pc' = "returned"
  /\ UNCHANGED <<tool, args, log_file_path, exception, output_pdf, log,
                 archiveVars, pdfVars, sortVars, encodeVars, mainVars>>

process_archive ==
  \/ MakeTempDir \/ Extract \/ Discover
  \/ SplitBegin \/ SplitDimensions \/ SplitPage \/ SplitEnd
  \/ CheckImages
  \/ SkipCompressionPage \/ SkipCompressionEnd
  \/ ConvertPage \/ Decide \/ FallbackPage \/ FallbackEnd
  \/ CheckFiles \/ Import \/ ViewerPref \/ Optimize \/ Linearize
  \/ Move \/ LogLocked \/ WriteLog \/ Except \/ Finally

(***************************************************************************)
(* process_pdf of JisuiPDF2Arc.                                            *)
(***************************************************************************)
\* the record of a finished PDF
PdfSuccessRecord ==
  [Status |-> "Success", Source |-> archive_path, Error |-> None,
   Images |-> extracted_files,
   Converted |-> None, Originals |-> None, Skipped |-> None]

\* the record the two handlers of process_pdf write
PdfFailedRecord(error_msg) ==
  [Status |-> "Failed", Source |-> archive_path, Error |-> error_msg,
   Images |-> None,
   Converted |-> None, Originals |-> None, Skipped |-> None]

PdfMakeTempDir ==
  /\ pc = "call"
  /\ tool = "JisuiPDF2Arc"
  /\ console' = Printed("Processing")
  /\ temp_dir' = TRUE
  /\ pc' = "pdf_extract"
  /\ UNCHANGED <<tool, args, log_file_path, exception, output_pdf, log,
                 archiveVars, pdfVars, sortVars, encodeVars, loopVars, outputs>>

\* pdfcpu extract -mode image, at most 300 s, and the files it left
PdfExtract ==
  /\ pc = "pdf_extract"
  /\ \E result \in {"ok", "CalledProcessError", "TimeoutExpired"} :
       IF result = "ok"
       THEN /\ \E count \in 0..MaxFiles : extracted_files' = count
            /\ pc' = "pdf_check"
            /\ UNCHANGED exception
       ELSE /\ exception' = result
            /\ pc' = IF result = "CalledProcessError"
                     THEN "pdf_called_process_error" ELSE "pdf_exception"
            /\ UNCHANGED extracted_files
  /\ UNCHANGED <<tool, args, log_file_path, temp_dir, output_pdf, log,
                 archiveVars, zip_output, sortVars, encodeVars, mainVars>>

\* `if not extracted_files: return`, and the mkdir of the output directory
PdfCheck ==
  /\ pc = "pdf_check"
  /\ IF extracted_files = 0
     THEN pc' = "pdf_finally" /\ UNCHANGED exception
     ELSE \E mkdir \in {"ok", "OSError"} :
            IF mkdir = "ok" THEN pc' = "pdf_zip" /\ UNCHANGED exception
            ELSE pc' = "pdf_exception" /\ exception' = mkdir
  /\ UNCHANGED <<tool, args, log_file_path, temp_dir, output_pdf, log,
                 archiveVars, pdfVars, sortVars, encodeVars, mainVars>>

\* 7z a -tzip
PdfZip ==
  /\ pc = "pdf_zip"
  /\ \E result \in {"ok", "CalledProcessError"} :
       IF result = "ok"
       THEN /\ zip_output' = TRUE
            /\ outputs' = outputs \cup {archive_path}
            /\ console' = Printed("Successfully created")
            /\ pc' = "pdf_log"
            /\ UNCHANGED exception
       ELSE /\ exception' = result
            /\ pc' = "pdf_called_process_error"
            /\ UNCHANGED <<zip_output, outputs, console>>
  /\ UNCHANGED <<tool, args, log_file_path, temp_dir, output_pdf, log,
                 archiveVars, extracted_files, sortVars, encodeVars, loopVars>>

PdfLog ==
  /\ pc = "pdf_log"
  /\ WriteRecord(PdfSuccessRecord, console,
                 "Warning: Failed to write to log file")
  /\ pc' = "pdf_finally"
  /\ UNCHANGED <<tool, args, log_file_path, temp_dir, exception, output_pdf,
                 archiveVars, pdfVars, sortVars, encodeVars, loopVars, outputs>>

\* except subprocess.CalledProcessError
PdfCalledProcessError ==
  /\ pc = "pdf_called_process_error"
  /\ WriteRecord(PdfFailedRecord("Error during subprocess execution"),
                 Printed("Error during subprocess execution"),
                 "Warning: Failed to write error to log file")
  /\ pc' = "pdf_finally"
  /\ UNCHANGED <<tool, args, log_file_path, temp_dir, exception, output_pdf,
                 archiveVars, pdfVars, sortVars, encodeVars, loopVars, outputs>>

\* except Exception
PdfException ==
  /\ pc = "pdf_exception"
  /\ WriteRecord(PdfFailedRecord("An unexpected error occurred"),
                 Printed("An unexpected error occurred"),
                 "Warning: Failed to write error to log file")
  /\ pc' = "pdf_finally"
  /\ UNCHANGED <<tool, args, log_file_path, temp_dir, exception, output_pdf,
                 archiveVars, pdfVars, sortVars, encodeVars, loopVars, outputs>>

\* finally: shutil.rmtree(temp_dir, ignore_errors=True)
PdfFinally ==
  /\ pc = "pdf_finally"
  /\ temp_dir' = Rmtree(temp_dir)
  /\ pc' = "returned"
  /\ UNCHANGED <<tool, args, log_file_path, exception, output_pdf, log,
                 archiveVars, pdfVars, sortVars, encodeVars, mainVars>>

process_pdf ==
  \/ PdfMakeTempDir \/ PdfExtract \/ PdfCheck \/ PdfZip \/ PdfLog
  \/ PdfCalledProcessError \/ PdfException \/ PdfFinally

(***************************************************************************)
(* The runs of one archive and of one PDF.                                 *)
(***************************************************************************)
Next == process_archive \/ process_pdf

Spec == Init /\ [][Next]_vars

(***************************************************************************)
(* main of both programs: the tools, the log file, the inputs, the target  *)
(* height, and one call of process_archive / process_pdf for each input.   *)
(***************************************************************************)
MaxArchives == 2

\* the executables a machine may have
ToolKeys == {"sevenzip", "magick", "pdfcpu", "qpdf"}

\* find_tool: the tool is found when it is installed at one of the three
\* places, and FileNotFoundError is raised otherwise
find_tool(tool_key, installed) == tool_key \in installed

\* sys.exit(1)
Exit ==
  /\ main_pc' = "exited"
  /\ exit_status' = 1

\* the dict of tools, built key by key: the first tool that is not found
\* ends the run
FindTools ==
  /\ main_pc = "find_tools"
  /\ \E installed \in SUBSET ToolKeys :
       LET required == RequiredTools(tool, args)
       IN IF \A k \in 1..Len(required) : find_tool(required[k], installed)
          THEN /\ tools' = {required[k] : k \in 1..Len(required)}
               /\ main_pc' = "log_path"
               /\ UNCHANGED <<exit_status, console>>
          ELSE /\ Exit
               /\ console' = Printed("Error: tool not found")
               /\ UNCHANGED tools
  /\ UNCHANGED <<tool, args, log_file_path, pc, temp_dir, exception,
                 output_pdf, log, archiveVars, pdfVars, sortVars, encodeVars,
                 unique_files, archive_path, target_height, archive_files,
                 outputs>>

\* the log file: None when its directory cannot be made
HandleLogPath ==
  /\ main_pc = "log_path"
  /\ log_file_path' \in BOOLEAN
  /\ main_pc' = "resolve"
  /\ UNCHANGED <<tool, args, pc, temp_dir, exception, output_pdf, log,
                 archiveVars, pdfVars, sortVars, encodeVars, exit_status,
                 tools, unique_files, archive_path, target_height,
                 archive_files, console, outputs>>

\* the contents of the inputs of a run of main: an archive with no image
\* and one with a single image
MainArchives == {{}, {ArchiveFileList[1]}}

\* unique_files = sorted(list(set(resolved_files))), and the exit when
\* there is none
ResolveFiles ==
  /\ main_pc = "resolve"
  /\ \E count \in 0..MaxArchives :
       /\ unique_files' = [k \in 1..count |-> k]
       /\ archive_files' \in IF tool = "JisuiArc2PDF"
                              THEN [1..count -> MainArchives]
                              ELSE [1..count -> {{}}]
       /\ IF count = 0
          THEN /\ Exit
               /\ console' = Printed("Error: No input files found.")
          ELSE /\ main_pc' = IF tool = "JisuiArc2PDF" THEN "target_height"
                             ELSE "loop"
               /\ UNCHANGED <<exit_status, console>>
  /\ UNCHANGED <<tool, args, log_file_path, pc, temp_dir, exception,
                 output_pdf, log, archiveVars, pdfVars, sortVars, encodeVars,
                 tools, archive_path, target_height, outputs>>

\* target_height, target_dpi = calculate_target_height(args)
TargetHeight ==
  /\ main_pc = "target_height"
  /\ IF calculate_target_height(args).exit
     THEN /\ Exit
          /\ console' =
               Printed("Error: --PaperSize and --Dpi must be used together.")
          /\ UNCHANGED target_height
     ELSE /\ target_height' = calculate_target_height(args).target_height
          /\ main_pc' = "loop"
          /\ UNCHANGED <<exit_status, console>>
  /\ UNCHANGED <<tool, args, log_file_path, pc, temp_dir, exception,
                 output_pdf, log, archiveVars, pdfVars, sortVars, encodeVars,
                 tools, unique_files, archive_path, archive_files, outputs>>

\* StartsNext that also starts the next call while one is running
StartsNextAnyTime(position, inputs, call) == position < Len(inputs)

\* the for statement takes the next input when the call before has
\* returned (or none was made) and an input is left
StartsNext(position, inputs, call) ==
  /\ call \in {"idle", "returned"}
  /\ position < Len(inputs)

\* one turn of `for archive_path in unique_files`: the call of
\* process_archive / process_pdf, whose locals are fresh
LoopCall ==
  /\ main_pc = "loop"
  /\ StartsNext(archive_path, unique_files, pc)
  /\ archive_path' = archive_path + 1
  /\ pc' = "call"
  /\ exception' = None
  /\ output_pdf' = "old"
  /\ image_files' = <<>>
  /\ processed_image_files' = <<>>
  /\ idx' = 0
  /\ dimensions' = NoDimensions
  /\ files_for_pdf' = <<>>
  /\ conversion_results' = <<>>
  /\ skipped_files' = <<>>
  /\ original_count' = 0
  /\ converted_count' = 0
  /\ use_converted' = FALSE
  /\ total_original_size' = 0
  /\ total_converted_size' = 0
  /\ imported' = {}
  /\ primary_failed' = 0
  /\ extracted_files' = 0
  /\ zip_output' = FALSE
  /\ magick_calls' = <<>>
  /\ UNCHANGED <<tool, args, log_file_path, temp_dir, log, sortVars, images,
                 main_pc, exit_status, tools, unique_files, target_height,
                 archive_files, console, outputs>>

\* print("All processing complete.") after the last call has returned
Complete ==
  /\ main_pc = "loop"
  /\ pc = "returned"
  /\ archive_path = Len(unique_files)
  /\ console' = Printed("All processing complete.")
  /\ main_pc' = "complete"
  /\ UNCHANGED <<tool, args, log_file_path, pc, temp_dir, exception,
                 output_pdf, log, archiveVars, pdfVars, sortVars, encodeVars,
                 exit_status, tools, unique_files, archive_path,
                 target_height, archive_files, outputs>>

main == FindTools \/ HandleLogPath \/ ResolveFiles \/ TargetHeight
        \/ LoopCall \/ Complete

\* the settings of the runs of main: each run sets one of --SplitPages,
\* --SkipCompression, --Linearize and --PaperSize (without --Dpi)
MainArgsCases ==
  {a \in [SplitPages : BOOLEAN, Binding : {"Left"},
          SkipCompression : BOOLEAN, TotalCompressionThreshold : {None},
          Linearize : BOOLEAN,
          Deskew : {FALSE}, Trim : {FALSE}, GrayscaleLevel : {None},
          AutoContrast : {FALSE}, ColorContrast : {None},
          SaturationThreshold : {DefaultSaturationThreshold},
          Height : {0}, PaperSize : {None, "A4"}, Dpi : {0}] :
     Cardinality({option \in {"SplitPages", "SkipCompression", "Linearize"} :
                    a[option]})
     + (IF a.PaperSize # None THEN 1 ELSE 0) = 1}

MainInit ==
  /\ tool \in {"JisuiArc2PDF", "JisuiPDF2Arc"}
  /\ args \in IF tool = "JisuiArc2PDF" THEN MainArgsCases ELSE {None}
  /\ log_file_path = FALSE
  /\ pc = "idle"
  /\ temp_dir = FALSE
  /\ exception = None
  /\ output_pdf = "old"
  /\ log = <<>>
  /\ Unset
  /\ sort_input = <<>>
  /\ sort_output = None
  /\ images = {ColorImage}
  /\ magick_calls = <<>>
  /\ main_pc = "find_tools"
  /\ exit_status = 0
  /\ tools = {}
  /\ unique_files = <<>>
  /\ archive_path = 0
  /\ console = <<>>
  /\ target_height = 0
  /\ archive_files = <<>>
  /\ outputs = {}

MainNext == main \/ process_archive \/ process_pdf

MainSpec == MainInit /\ [][MainNext]_vars

\* a run of main goes on as long as a statement is left to execute
FairMainSpec == MainSpec /\ WF_vars(MainNext)

(***************************************************************************)
(* The selection of lines 314-343 alone, over more sizes and thresholds:   *)
(* the archive is at the end of the encode loop, each of its pages either  *)
(* skipped or encoded with one of DecideSizes.                             *)
(***************************************************************************)
DecideSizes ==
  {<<1000000, 1015000>>, <<1000000, 1025000>>, <<1000000, 1020000>>,
   <<0, 1015000>>, <<0, 0>>, <<1000000, 450000>>, <<1000000, 600000>>,
   <<1000000, 580000>>}

DecideThresholds == {None, <<50, 1>>, <<58, 1>>, <<110, 1>>, <<1015, 10>>}

\* the encode loop's lists for pages, of which those in failed were skipped
\* and page k of the others was encoded with sizes[k]
ResultsOf(pages, failed, sizes) ==
  LET encoded == SelectSeq([k \in 1..Len(pages) |-> k],
                           LAMBDA k : k \notin failed)
  IN [k \in 1..Len(encoded) |->
        [original_path |-> pages[encoded[k]],
         converted_path |-> NumberedFile("converted", encoded[k] - 1),
         original_size |-> sizes[encoded[k]][1],
         converted_size |-> sizes[encoded[k]][2],
         saturation |-> get_image_saturation(ColorImage)]]

SkippedOf(pages, failed) ==
  LET skipped == SelectSeq([k \in 1..Len(pages) |-> k],
                           LAMBDA k : k \in failed)
  IN [k \in 1..Len(skipped) |-> pages[skipped[k]]]

DecideInit ==
  /\ tool = "JisuiArc2PDF"
  /\ args \in {a \in [SplitPages : {FALSE}, Binding : {"Right"},
                      SkipCompression : {FALSE},
                      TotalCompressionThreshold : DecideThresholds,
                      Linearize : {FALSE},
                      Deskew : {FALSE}, Trim : {FALSE}, GrayscaleLevel : {None},
                      AutoContrast : {FALSE}, ColorContrast : {None},
                      SaturationThreshold : {DefaultSaturationThreshold},
                      Height : {0}, PaperSize : {None}, Dpi : {0}] :
                 TRUE}
  /\ log_file_path = TRUE
  /\ pc = "convert"
  /\ temp_dir = TRUE
  /\ exception = None
  /\ output_pdf = "old"
  /\ log = <<>>
  /\ \E files \in Enumerations(ArchiveFiles, MaxFiles) :
       /\ files # <<>>
       /\ archive_files = <<{files[k] : k \in 1..Len(files)}>>
       /\ image_files =
            SortByNaturalKey([k \in 1..Len(files) |-> TempFile(files[k])])
  /\ idx = Len(image_files) + 1
  /\ \E failed \in SUBSET (1..Len(image_files)) :
       \E sizes \in [1..Len(image_files) -> DecideSizes] :
         /\ \A k \in failed : sizes[k] = <<0, 0>>
         /\ conversion_results = ResultsOf(image_files, failed, sizes)
         /\ skipped_files = SkippedOf(image_files, failed)
         /\ primary_failed = Cardinality(failed)
  /\ processed_image_files = <<>>
  /\ dimensions = NoDimensions
  /\ files_for_pdf = <<>>
  /\ original_count = 0
  /\ converted_count = 0
  /\ use_converted = FALSE
  /\ total_original_size = 0
  /\ total_converted_size = 0
  /\ imported = {}
  /\ extracted_files = 0
  /\ zip_output = FALSE
  /\ sort_input = <<>>
  /\ sort_output = None
  /\ images = {ColorImage}
  /\ magick_calls = <<>>
  /\ InTheLoop

DecideNext == Decide

DecideSpec == DecideInit /\ [][DecideNext]_vars

(***************************************************************************)
(* The two encodes of lines 268-368 alone, over more options and images:   *)
(* the archive is at the start of the primary encode loop.                 *)
(***************************************************************************)
\* pages as high as the default target height (1684), higher and lower;
\* with a saturation just below the default threshold (3276 / 65535 <
\* 0.05), just above it, and one that cannot be measured
EncodeImages ==
  {[height |-> 1684, mean |-> 3276, mean_ok |-> TRUE],
   [height |-> 1685, mean |-> 3277, mean_ok |-> TRUE],
   [height |-> 1683, mean |-> 0, mean_ok |-> FALSE]}

\* the encode options of the runs: --Deskew and --Trim together or not at
\* all, --AutoContrast only together with --ColorContrast, --Height not
\* given (the default target height) or negative, and the default
\* --SaturationThreshold or 0.5, the saturation of a page that cannot be
\* measured
EncodeArgsCases ==
  {a \in [SplitPages : {FALSE}, Binding : {"Right"},
          SkipCompression : {FALSE}, TotalCompressionThreshold : {None},
          Linearize : {FALSE},
          Deskew : BOOLEAN, Trim : BOOLEAN,
          GrayscaleLevel : {None, "10%,90%"},
          AutoContrast : BOOLEAN, ColorContrast : {None, "0x25"},
          SaturationThreshold : {DefaultSaturationThreshold, <<5, 10>>},
          Height : {0, -1}, PaperSize : {None}, Dpi : {0}] :
     /\ a.Deskew = a.Trim
     /\ a.AutoContrast => a.ColorContrast # None}

EncodeInit ==
  /\ tool = "JisuiArc2PDF"
  /\ args \in EncodeArgsCases
  /\ log_file_path = TRUE
  /\ pc = "convert"
  /\ temp_dir = TRUE
  /\ exception = None
  /\ output_pdf = "old"
  /\ log = <<>>
  /\ \E files \in Enumerations(ArchiveFiles, MaxFiles) :
       /\ files # <<>>
       /\ archive_files = <<{files[k] : k \in 1..Len(files)}>>
       /\ image_files =
            SortByNaturalKey([k \in 1..Len(files) |-> TempFile(files[k])])
  /\ idx = 1
  /\ processed_image_files = <<>>
  /\ dimensions = NoDimensions
  /\ files_for_pdf = <<>>
  /\ conversion_results = <<>>
  /\ skipped_files = <<>>
  /\ original_count = 0
  /\ converted_count = 0
  /\ use_converted = FALSE
  /\ total_original_size = 0
  /\ total_converted_size = 0
  /\ imported = {}
  /\ primary_failed = 0
  /\ extracted_files = 0
  /\ zip_output = FALSE
  /\ sort_input = <<>>
  /\ sort_output = None
  /\ images = EncodeImages
  /\ magick_calls = <<>>
  /\ InTheLoop

EncodeNext == ConvertPage \/ Decide \/ FallbackPage \/ FallbackEnd

EncodeSpec == EncodeInit /\ [][EncodeNext]_vars

(***************************************************************************)
(* The sort of line 184 alone, over names that exercise every rule of the  *)
(* key.                                                                    *)
(***************************************************************************)
SortNames ==
  {<<"p", "1", ".", "j", "p", "g">>,
   <<"p", "2", ".", "j", "p", "g">>,
   <<"p", "1", "0", ".", "j", "p", "g">>,
   <<"p", "0", "1", ".", "j", "p", "g">>,
   <<"P", "1", ".", "j", "p", "g">>,
   <<"p", "_", "1", ".", "j", "p", "g">>,
   <<"p", "1", "-", "2", ".", "j", "p", "g">>,
   <<"p", "1", "a", ".", "j", "p", "g">>,
   <<"p", "9", "9", "9", "9", "9", "9", "9", "9", "9", "9", "9", ".", "j", "p", "g">>,
   <<"p", "1", "0", "0", "0", "0", "0", "0", "0", "0", "0", "0", "0", ".", "j", "p", "g">>}

SortInit ==
  /\ tool = "JisuiArc2PDF"
  /\ args \in {a \in ArgsCases : /\ ~a.SplitPages
                                 /\ ~a.SkipCompression
                                 /\ a.TotalCompressionThreshold = None
                                 /\ ~a.Linearize}
  /\ log_file_path = FALSE
  /\ pc = "sort"
  /\ temp_dir = TRUE
  /\ exception = None
  /\ output_pdf = "old"
  /\ log = <<>>
  /\ Unset
  /\ \E files \in Enumerations(SortNames, MaxSortLen) :
       /\ sort_input = [k \in 1..Len(files) |-> TempFile(files[k])]
       /\ archive_files = <<{files[k] : k \in 1..Len(files)}>>
  /\ sort_output = None
  /\ images = {ColorImage}
  /\ magick_calls = <<>>
  /\ InTheLoop

\* image_files.sort(key=lambda f: natural_sort_key(Path(f).name))
Sort ==
  /\ pc = "sort"
  /\ sort_output' = SortByNaturalKey(sort_input)
  /\ pc' = "sorted"
  /\ UNCHANGED <<tool, args, log_file_path, temp_dir, exception, output_pdf,
                 log, archiveVars, pdfVars, sort_input, encodeVars, mainVars>>

SortNext == Sort

SortSpec == SortInit /\ [][SortNext]_vars

(***************************************************************************)
(* The properties.                                                         *)
(***************************************************************************)
\* C1 (DecideSpec): once the selection is made with no explicit threshold,
\* the converted set is used exactly when the original total of the encoded
\* pages is zero or 100 * converted total < 102 * original total; a
\* converted total of exactly 1.02 times the original total (102 * original
\* total = 100 * converted total) therefore selects the original set.
C1_DefaultRule ==
  LET original == SumOf(conversion_results, "original_size")
      converted == SumOf(conversion_results, "converted_size")
  IN (/\ pc # "convert"
      /\ conversion_results # <<>>
      /\ args.TotalCompressionThreshold = None)
     => (use_converted <=> (original = 0 \/ 100 * converted < 102 * original))

\* the selection was made by the default rule for encoded pages whose
\* converted total is exactly 1.02 times their original total, and fell on
\* the original set
C1_Witness ==
  /\ pc = "fallback"
  /\ args.TotalCompressionThreshold = None
  /\ total_original_size = 2000000
  /\ total_converted_size = 2040000
  /\ ~use_converted

\* C2 (DecideSpec): once the selection is made with an explicit threshold
\* T = num/den and a positive original total, the converted set is used
\* exactly when 100 * converted total / original total < T, that is when
\* 100 * converted total * den < num * original total.
C2_ExplicitThreshold ==
  LET original == SumOf(conversion_results, "original_size")
      converted == SumOf(conversion_results, "converted_size")
      threshold == args.TotalCompressionThreshold
  IN (/\ pc # "convert"
      /\ conversion_results # <<>>
      /\ threshold # None
      /\ original > 0)
     => (use_converted <=>
           100 * converted * threshold[2] < threshold[1] * original)

\* C3 (Spec): in normal mode the list of files for the PDF, and the list
\* pdfcpu import was run with, hold only files of converted/ or only files
\* of passthrough/, in every state.
C3_AllOrNothing ==
  (tool = "JisuiArc2PDF" /\ ~args.SkipCompression) =>
    LET OneKind(list) ==
          \/ \A k \in 1..Len(list) : list[k].dir = "converted"
          \/ \A k \in 1..Len(list) : list[k].dir = "passthrough"
    IN /\ OneKind(files_for_pdf)
       /\ \A list \in imported : OneKind(list)

\* the import ran with two re-encoded originals after a page was skipped
C3_Witness ==
  /\ tool = "JisuiArc2PDF"
  /\ ~args.SkipCompression
  /\ \E list \in imported : Len(list) = 2 /\ list[1].dir = "passthrough"
  /\ skipped_files # <<>>

\* C4 (SortSpec): after the sort, of two names that are the same but for
\* the value of one digit run, the one whose run is the smaller number
\* comes first, whatever the length of the runs.
C4_NaturalOrdering ==
  pc = "sorted" =>
    \A i, j \in 1..Len(sort_output) :
      LET a == SplitRuns(sort_output[i].name)
          b == SplitRuns(sort_output[j].name)
          Significant(d) ==
            LET nonzero == {k \in 1..Len(d) : d[k] # "0"}
            IN IF nonzero = {} THEN <<>>
               ELSE SubSeq(d, CHOOSE k \in nonzero : \A m \in nonzero : k <= m,
                           Len(d))
          NumericLess(d, e) ==
            \/ Len(Significant(d)) < Len(Significant(e))
            \/ /\ Len(Significant(d)) = Len(Significant(e))
               /\ StrLess(Significant(d), Significant(e))
      IN (/\ Len(a) = Len(b)
          /\ \E k \in 1..Len(a) :
               /\ IsDigit(a[k][1])
               /\ IsDigit(b[k][1])
               /\ \A m \in 1..Len(a) : m # k => a[m] = b[m]
               /\ NumericLess(a[k], b[k]))
         => i < j

C6_BindingReorder ==
  [][(/\ pc = "split_page"
      /\ Len(processed_image_files') = Len(processed_image_files) + 2)
     => LET left == left_page_path(image_files[idx])
            right == right_page_path(image_files[idx])
        IN processed_image_files' =
             processed_image_files \o
             (IF args.Binding = "Right" THEN <<right, left>>
              ELSE <<left, right>>)]_vars

\* under Right binding the first page was split into right half, left half
C6_Witness ==
  /\ tool = "JisuiArc2PDF"
  /\ args.SplitPages
  /\ args.Binding = "Right"
  /\ pc = "split_dimensions"
  /\ idx = 2
  /\ processed_image_files =
       <<right_page_path(image_files[1]), left_page_path(image_files[1])>>

\* C7 (Spec): when an archive in normal mode returns without an exception
\* and some but not all of its N pages failed in the encode loop (k of
\* them) and none failed later, the other N - k pages were encoded, N - k
\* files went to the import, the output was written, and the record, if
\* written, says "Success with pages skipped" with Skipped = k.
C7_PartialFailure ==
  (/\ tool = "JisuiArc2PDF"
   /\ ~args.SkipCompression
   /\ pc = "returned"
   /\ exception = None
   /\ 0 < primary_failed
   /\ primary_failed < Len(image_files)
   /\ Len(skipped_files) = primary_failed)
  => /\ Len(conversion_results) = Len(image_files) - primary_failed
     /\ imported # {}
     /\ \A list \in imported : Len(list) = Len(image_files) - primary_failed
     /\ output_pdf = "new"
     /\ log # <<>> =>
          /\ Len(log) = 1
          /\ log[1].Status = "Success with pages skipped"
          /\ log[1].Skipped = primary_failed
          /\ log[1].Images = Len(image_files)

\* an archive of two pages returned with one page failed in the encode
\* loop and its record written
C7_Witness ==
  /\ tool = "JisuiArc2PDF"
  /\ ~args.SkipCompression
  /\ pc = "returned"
  /\ exception = None
  /\ Len(image_files) = 2
  /\ primary_failed = 1
  /\ Len(skipped_files) = 1
  /\ log # <<>>

\* C8 (Spec): the files pdfcpu import is run with stand for pages in the
\* order these pages have after splitting: converted/n and
\* sc_passthrough/n stand for page n, passthrough/n for the page of the
\* n-th encoded result, any other file for itself.
C8_PageOrder ==
  tool = "JisuiArc2PDF" =>
    LET Place(page) ==
          CHOOSE k \in 1..Len(image_files) : image_files[k] = page
        PageOf(file) ==
          IF file.dir = "passthrough"
          THEN Place(conversion_results[
                 CHOOSE n \in 1..Len(conversion_results) :
                   NumberedFile("passthrough", n - 1) = file].original_path)
          ELSE IF file.dir \in {"converted", "sc_passthrough"}
          THEN CHOOSE k \in 1..Len(image_files) :
                 NumberedFile(file.dir, k - 1) = file
          ELSE Place(file)
    IN \A list \in imported :
         \A i, j \in 1..Len(list) :
           i < j => PageOf(list[i]) < PageOf(list[j])

\* the import ran with the re-encoded originals of the first and the third
\* of three pages, the second one skipped
C8_Witness ==
  /\ tool = "JisuiArc2PDF"
  /\ ~args.SkipCompression
  /\ ~use_converted
  /\ Len(image_files) = 3
  /\ skipped_files = <<image_files[2]>>
  /\ \E list \in imported : Len(list) = 2

\* C9 (Spec): pdfcpu import never runs with an empty list, no step from
\* the import on is reached with an empty list of files, and an archive
\* that returns with no file prepared ran no import, left the output as it
\* was and ended in an exception.
C9_NonEmptyPageSet ==
  tool = "JisuiArc2PDF" =>
    /\ \A list \in imported : list # <<>>
    /\ pc \in {"import", "viewerpref", "optimize", "linearize", "move",
               "log", "locked"} => files_for_pdf # <<>>
    /\ (pc = "returned" /\ files_for_pdf = <<>>) =>
         /\ imported = {}
         /\ output_pdf = "old"
         /\ exception # None

\* an archive returned after every re-encode of its originals failed
C9_Witness ==
  /\ tool = "JisuiArc2PDF"
  /\ pc = "returned"
  /\ conversion_results # <<>>
  /\ ~use_converted
  /\ files_for_pdf = <<>>
  /\ exception =
       "ValueError: No image files were successfully prepared for the PDF."

ProcessingCount(k) ==
  Cardinality({i \in 1..Len(console) :
                 console[i] = [text |-> "Processing", archive |-> k]})

\* C11 (FairMainSpec): once main is in its loop, no failure inside a call
\* ends the run: main leaves the loop only to "All processing complete.",
\* a call starts only for the next input, after the call before has returned
\* and removed its temporary directory, no input is started twice, at the
\* end every input was started once, and the end is reached.
C11_FailureIsolation ==
  /\ [][main_pc = "loop" => main_pc' \in {"loop", "complete"}]_vars
  /\ [][pc' = "call" /\ pc # "call" =>
          /\ pc \in {"idle", "returned"}
          /\ ~temp_dir
          /\ archive_path' = archive_path + 1]_vars
  /\ [](\A k \in 1..Len(unique_files) : ProcessingCount(k) <= 1)
  /\ [](main_pc = "complete" =>
          /\ pc = "returned"
          /\ ~temp_dir
          /\ \A k \in 1..Len(unique_files) : ProcessingCount(k) = 1)
  /\ (main_pc = "loop" ~> main_pc = "complete")

\* a run of two archives is complete, the first of which failed
C11_Witness ==
  /\ main_pc = "complete"
  /\ tool = "JisuiArc2PDF"
  /\ Len(unique_files) = 2
  /\ \E i \in 1..Len(console) :
       console[i] = [text |-> "Error processing", archive |-> 1]
  /\ ProcessingCount(2) = 1

\* "-resize" is among the operations ops
Resizes(ops) == \E k \in 1..Len(ops) : ops[k] = "-resize"

\* C12 (EncodeSpec): the primary encode of a page resizes it exactly when
\* the target height is positive and the page is higher than the target
\* (so a page is never enlarged), and the re-encode never resizes.
C12_ResizeApplication ==
  \A i \in 1..Len(magick_calls) :
    /\ magick_calls[i].stage = "primary" =>
         (Resizes(magick_calls[i].ops)
          <=> /\ target_height > 0
              /\ magick_calls[i].original_height > target_height)
    /\ magick_calls[i].stage = "passthrough" => ~Resizes(magick_calls[i].ops)

\* a page as high as the target was encoded without resize, a higher one
\* with it, and a page was re-encoded
C12_Witness ==
  /\ target_height > 0
  /\ \E i, j, k \in 1..Len(magick_calls) :
       /\ magick_calls[i].stage = "primary"
       /\ magick_calls[i].original_height = target_height
       /\ ~Resizes(magick_calls[i].ops)
       /\ magick_calls[j].stage = "primary"
       /\ magick_calls[j].original_height > target_height
       /\ Resizes(magick_calls[j].ops)
       /\ magick_calls[k].stage = "passthrough"

\* the operations ops encode the page as grayscale
EncodesGray(ops) == \E k \in 1..Len(ops) : ops[k] = "-colorspace"

\* the positions in magick_calls of the calls of the stage on source
CallsOf(stage, source) ==
  {j \in 1..Len(magick_calls) :
     /\ magick_calls[j].stage = stage
     /\ magick_calls[j].source = source}

\* C13 (EncodeSpec): the saturation of a page that is re-encoded was
\* measured once, by the primary encode, and the re-encode makes the page
\* grayscale exactly when the primary encode did.
C13_SaturationReuse ==
  \A i \in 1..Len(magick_calls) :
    magick_calls[i].stage = "passthrough" =>
      /\ Cardinality(CallsOf("saturation", magick_calls[i].source)) = 1
      /\ Cardinality(CallsOf("primary", magick_calls[i].source)) = 1
      /\ \A j \in CallsOf("primary", magick_calls[i].source) :
           /\ j < i
           /\ EncodesGray(magick_calls[j].ops)
              <=> EncodesGray(magick_calls[i].ops)

\* a grayscale page and a colour page were both re-encoded
C13_Witness ==
  \E i, j \in 1..Len(magick_calls) :
    /\ magick_calls[i].stage = "passthrough"
    /\ EncodesGray(magick_calls[i].ops)
    /\ magick_calls[j].stage = "passthrough"
    /\ ~EncodesGray(magick_calls[j].ops)

\* ops without the resize operation and its argument
WithoutResize(ops) ==
  SelectSeq(ops, LAMBDA op : op \notin {"-resize", "x{target_height}"})

\* C14 (EncodeSpec): the operations of the re-encode of a page are those of
\* its primary encode, in the same order, with only the resize operation
\* removed.
C14_FallbackChain ==
  \A i \in 1..Len(magick_calls) :
    magick_calls[i].stage = "passthrough" =>
      \A j \in CallsOf("primary", magick_calls[i].source) :
        magick_calls[i].ops = WithoutResize(magick_calls[j].ops)

\* the orders in which the file system may enumerate the files of list
OrdersOf(list) ==
  {order \in Enumerations({list[k] : k \in 1..Len(list)}, Len(list)) :
     Len(order) = Len(list)}

\* C15 (SortSpec): the page order does not depend on the order in which
\* the file system enumerates the files: sorting any other enumeration of
\* the same files gives the same list, also when two names have the same
\* sort key.
C15_Determinism ==
  pc = "sorted" =>
    \A order \in OrdersOf(sort_input) :
      SortByNaturalKey(order) = sort_output

\* the number of pages the splitter dropped: one warning is printed for each
SplitDropped ==
  Cardinality({i \in 1..Len(console) :
                 console[i].text \in
                   {"Warning: Could not get dimensions. Skipping page.",
                    "Warning: Failed to split. Skipping page.",
                    "Warning: Error splitting. It will be skipped."}})

\* C16 (Spec): when an archive that lost pages in the split stage ends with
\* its output written and its record logged, the record's status is
\* "Success with pages skipped" and the lost pages are counted in the
\* record's skipped count and are among the listed skipped pages.
C16_SplitFailuresRecorded ==
  (/\ pc = "finally"
   /\ exception = None
   /\ output_pdf = "new"
   /\ log # <<>>
   /\ SplitDropped > 0) =>
    /\ log[Len(log)].Status = "Success with pages skipped"
    /\ log[Len(log)].Skipped >= SplitDropped
    /\ Len(skipped_files) >= SplitDropped

\* the pages of processed_image_files that were cut from or are img_path
PagesFrom(list, img_path) ==
  SelectSeq(list, LAMBDA page : page \in {img_path, left_page_path(img_path),
                                          right_page_path(img_path)})

\* C17, as stated (Spec): one turn of the splitter's loop appends one or two
\* pages of the input page to the list and leaves the pages before in place.
C17_SplitterCardinality ==
  [][pc = "split_page" =>
       /\ Len(processed_image_files') - Len(processed_image_files) \in {1, 2}
       /\ SubSeq(processed_image_files', 1, Len(processed_image_files))
          = processed_image_files]_vars

\* C17, amended (Spec): one turn of the splitter's loop appends no page when
\* the input page could not be measured or cropped (a warning is printed),
\* two pages for a spread that was cropped and one page otherwise, all of
\* them pages from the input page, after the pages appended before.
C17_SplitterCardinalityOrDrop ==
  [][pc = "split_page" =>
       LET added == Len(processed_image_files') - Len(processed_image_files)
       IN /\ added \in {0, 1, 2}
          /\ added = 0 <=> console' # console
          /\ added = 2 =>
               /\ dimensions # NoDimensions
               /\ IsSpread(dimensions[1], dimensions[2])
          /\ added = 1 =>
               /\ dimensions # NoDimensions
               /\ ~IsSpread(dimensions[1], dimensions[2])
          /\ SubSeq(processed_image_files', 1, Len(processed_image_files))
             = processed_image_files
          /\ Len(PagesFrom(processed_image_files', image_files[idx])) = added
     ]_vars

\* the splitter has passed a page on, dropped one and cut one in two
C17_Witness ==
  /\ pc = "split_dimensions"
  /\ SplitDropped = 1
  /\ idx = 3
  /\ Len(processed_image_files) = 2
  /\ processed_image_files[1].dir = "split_pages"

\* the tools the run in progress cannot do without
NeededTools ==
  IF tool = "JisuiPDF2Arc" THEN {"sevenzip", "pdfcpu"}
  ELSE {"sevenzip", "magick", "pdfcpu"}
       \cup (IF args.Linearize THEN {"qpdf"} ELSE {})

\* the run reported a tool it could not find
ToolError ==
  \E i \in 1..Len(console) : console[i].text = "Error: tool not found"

\* C18: a tool that cannot be found ends the run at once with a non-zero
\* status: no input has been handed to process_archive or process_pdf, no
\* temporary directory exists, nothing was written to an output or to the
\* log, and the error is the only line printed; and whenever an input is
\* being processed, or has been, every tool the run needs (the linearizer
\* included when --Linearize is given; the two tools of JisuiPDF2Arc) was
\* found.
C18_ToolDiscoveryFatal ==
  /\ ToolError =>
       /\ main_pc = "exited"
       /\ exit_status # 0
       /\ pc = "idle"
       /\ archive_path = 0
       /\ ~temp_dir
       /\ outputs = {}
       /\ output_pdf = "old"
       /\ ~zip_output
       /\ log = <<>>
       /\ Len(console) = 1
  /\ (pc # "idle" \/ archive_path # 0 \/ temp_dir \/ outputs # {}) =>
       NeededTools \subseteq tools

\* JisuiArc2PDF asked to linearize has stopped for a missing tool
C18_Witness ==
  /\ tool = "JisuiArc2PDF"
  /\ args.Linearize
  /\ ToolError
  /\ main_pc = "exited"

\* text was printed about the k-th input
PrintedAbout(k, text) ==
  \E i \in 1..Len(console) : console[i] = [text |-> text, archive |-> k]

\* the handler of the locked destination ran for the k-th input
LockedAt(k) == PrintedAbout(k, "Warning: Could not write to PDF file")

\* the number of records of the log about the k-th input
RecordCount(k) == Cardinality({i \in 1..Len(log) : log[i].Source = k})

LogWriteFailed(k) == PrintedAbout(k, "Warning: Failed to write to log file")

\* C20: when the write of the record of a finished archive (or PDF) fails,
\* the output written before stays where it is, the success message stands,
\* none of the error handlers runs and no "Failed" record is written for
\* the input, no exception is pending when the call returns, the run has
\* not exited, and the next step of main after the return is the call for
\* the next input, or the final message when none is left.
C20_LogWriteFailureNonFatal ==
  /\ [](\A k \in 1..archive_path :
          LogWriteFailed(k) =>
            /\ k \in outputs
            /\ PrintedAbout(k, IF tool = "JisuiArc2PDF"
                               THEN "Success! PDF created"
                               ELSE "Successfully created")
            /\ ~PrintedAbout(k, "Error processing")
            /\ ~PrintedAbout(k, "Warning: Could not write to PDF file")
            /\ ~PrintedAbout(k, "Error during subprocess execution")
            /\ ~PrintedAbout(k, "An unexpected error occurred")
            /\ \A i \in 1..Len(log) :
                 log[i].Source = k => log[i].Status # "Failed"
            /\ k = archive_path =>
                 /\ pc \in {"finally", "pdf_finally", "returned"}
                 /\ exception = None
                 /\ IF tool = "JisuiArc2PDF" THEN output_pdf = "new"
                    ELSE zip_output
            /\ main_pc \in {"loop", "complete"}
            /\ exit_status = 0)
  /\ [][(pc = "returned" /\ LogWriteFailed(archive_path) /\ main_pc = "loop")
          => \/ /\ archive_path < Len(unique_files)
                /\ archive_path' = archive_path + 1
                /\ pc' = "call"
             \/ /\ archive_path = Len(unique_files)
                /\ main_pc' = "complete"]_vars

\* the record of the first PDF could not be written, its ZIP is in place,
\* and the second PDF is being extracted
C20_Witness ==
  /\ tool = "JisuiPDF2Arc"
  /\ archive_path = 2
  /\ LogWriteFailed(1)
  /\ 1 \in outputs
  /\ pc = "pdf_extract"

\* a write of the log failed while the k-th input was processed
AnyLogWriteFailed(k) ==
  \/ PrintedAbout(k, "Warning: Failed to write to log file")
  \/ PrintedAbout(k, "Warning: Failed to write error to log file")

\* C21: with a log file in use and no failed write, an archive whose call of
\* process_archive has returned has exactly one record in the log, whatever
\* the outcome of the call.
C21_OneRecordPerArchive ==
  (/\ tool = "JisuiArc2PDF"
   /\ pc = "returned"
   /\ log_file_path
   /\ ~AnyLogWriteFailed(archive_path))
  => RecordCount(archive_path) = 1

\* C22: the run ends with a non-zero exit status only when a tool it needs
\* could not be found: a run that exits with a non-zero status has reported
\* a missing tool, and a run that ends after its loop has status 0.
C22_ExitStatusOnlyFromTools ==
  /\ exit_status # 0 => ToolError
  /\ main_pc = "complete" => exit_status = 0

\* the page of the run that is height pixels high
ImageOf(height) == CHOOSE image \in images : image.height = height

\* the saturation of image, mean / 65535 or the 0.5 of a failed measurement,
\* is below the threshold a / b, compared as fractions
BelowThreshold(image, threshold) ==
  IF image.mean_ok
  THEN image.mean * threshold[2] < threshold[1] * 65535
  ELSE 1 * threshold[2] < threshold[1] * 2

\* op is one of the operations ops
HasOp(ops, op) == \E k \in 1..Len(ops) : ops[k] = op

\* the colour operations of ops are those of a page that is, or is not,
\* below the saturation threshold
ColourRule(ops, below) ==
  IF below
  THEN /\ EncodesGray(ops)
       /\ HasOp(ops, "-level") <=> args.GrayscaleLevel # None
       /\ ~HasOp(ops, "-normalize")
       /\ ~HasOp(ops, "-brightness-contrast")
  ELSE /\ ~EncodesGray(ops)
       /\ ~HasOp(ops, "-level")
       /\ HasOp(ops, "-normalize") <=> args.AutoContrast
       /\ HasOp(ops, "-brightness-contrast")
          <=> (args.ColorContrast # None /\ ~args.AutoContrast)

\* C23 (EncodeSpec): in the primary encode and in the re-encode, a page
\* whose saturation is strictly below --SaturationThreshold is made
\* grayscale, with -level exactly when --GrayscaleLevel is given, and gets
\* neither -normalize nor -brightness-contrast; any other page is not made
\* grayscale, gets -normalize exactly when --AutoContrast is given and
\* -brightness-contrast exactly when --ColorContrast is given without
\* --AutoContrast.
C23_ColourClassification ==
  \A i \in 1..Len(magick_calls) :
    /\ magick_calls[i].stage = "primary" =>
         ColourRule(magick_calls[i].ops,
                    BelowThreshold(ImageOf(magick_calls[i].original_height),
                                   args.SaturationThreshold))
    /\ magick_calls[i].stage = "passthrough" =>
         \A j \in CallsOf("primary", magick_calls[i].source) :
           ColourRule(magick_calls[i].ops,
                      BelowThreshold(ImageOf(magick_calls[j].original_height),
                                     args.SaturationThreshold))

\* with both contrast options given, a page whose saturation equals the
\* threshold and a page below it were both re-encoded
C23_Witness ==
  /\ args.AutoContrast
  /\ args.ColorContrast # None
  /\ args.SaturationThreshold = <<5, 10>>
  /\ \E i, j \in 1..Len(magick_calls) :
       /\ magick_calls[i].stage = "passthrough"
       /\ HasOp(magick_calls[i].ops, "-normalize")
       /\ \E k \in CallsOf("primary", magick_calls[i].source) :
            ~ImageOf(magick_calls[k].original_height).mean_ok
       /\ magick_calls[j].stage = "passthrough"
       /\ EncodesGray(magick_calls[j].ops)

\* the number of entries of conversion_results for page
CandidateCount(page) ==
  Cardinality({k \in 1..Len(conversion_results) :
                 conversion_results[k].original_path = page})

\* the number of entries of skipped_files for page
SkipCount(page) ==
  Cardinality({k \in 1..Len(skipped_files) : skipped_files[k] = page})

\* C24: in normal mode, when the encode loop and the re-encode loop (if it
\* ran) are over, every page of image_files has either one entry in
\* conversion_results or one entry in skipped_files, and not both.
C24_OneRecordPerPage ==
  (pc = "check_files" /\ ~args.SkipCompression) =>
    \A k \in 1..Len(image_files) :
      CandidateCount(image_files[k]) + SkipCount(image_files[k]) = 1

\* the place of each step of process_archive in the order of its stages
StageRank ==
  [idle |-> 0, call |-> 0, extract |-> 1, discover |-> 2, split |-> 3,
   split_dimensions |-> 3, split_page |-> 3, check_images |-> 4,
   skip_compression |-> 5, convert |-> 5, fallback |-> 6, check_files |-> 7,
   import |-> 8, viewerpref |-> 9, optimize |-> 10, linearize |-> 11,
   move |-> 12, log |-> 13, locked |-> 13, except |-> 14, finally |-> 15,
   returned |-> 16]

\* every page of image_files has an entry in conversion_results or in
\* skipped_files
EveryPageEnded ==
  \A k \in 1..Len(image_files) :
    CandidateCount(image_files[k]) + SkipCount(image_files[k]) >= 1

\* the number of re-encodes that have been run
ReencodeCount ==
  Cardinality({j \in 1..Len(magick_calls) :
                 magick_calls[j].stage = "passthrough"})

\* C25: process_archive never goes back to an earlier stage; no file is
\* discovered before the extraction is over; no page is encoded, recorded
\* or skipped before the split stage is over; the totals and the selection
\* are set by one step only, taken when the encode loop has gone through
\* every page (each has a candidate or a skip record), and the totals cover
\* every candidate; the import runs only after the selection and, when the
\* originals are chosen, after every candidate has been re-encoded; and a
\* turn of the encode loop always leads to the next turn, whatever happened
\* to its page.
C25_StageOrdering ==
  /\ [](tool = "JisuiArc2PDF" =>
          /\ StageRank[pc] < StageRank["discover"] =>
               image_files = <<>>
          /\ StageRank[pc] <= StageRank["check_images"] =>
               /\ magick_calls = <<>>
               /\ conversion_results = <<>>
               /\ skipped_files = <<>>
               /\ files_for_pdf = <<>>
          /\ StageRank[pc] <= StageRank["convert"] =>
               /\ total_original_size = 0
               /\ total_converted_size = 0
               /\ ~use_converted
               /\ ReencodeCount = 0
          /\ StageRank[pc] < StageRank["import"] => imported = {}
          /\ total_original_size # 0 =>
               /\ EveryPageEnded
               /\ total_original_size = 1000000 * Len(conversion_results)
          /\ (StageRank[pc] >= StageRank["import"] /\ pc # "except"
              /\ StageRank[pc] < StageRank["finally"]
              /\ ~args.SkipCompression) =>
               /\ total_original_size # 0
               /\ use_converted \/ ReencodeCount = Len(conversion_results))
  /\ [][tool = "JisuiArc2PDF" /\ pc' # "call" =>
          StageRank[pc'] >= StageRank[pc]]_vars
  /\ [][(/\ tool = "JisuiArc2PDF"
         /\ pc' # "call"
         /\ \/ total_original_size' # total_original_size
            \/ total_converted_size' # total_converted_size
            \/ use_converted' # use_converted)
        => /\ pc = "convert"
           /\ idx > Len(image_files)
           /\ EveryPageEnded
           /\ total_original_size = 0]_vars
  /\ [][(tool = "JisuiArc2PDF" /\ pc = "convert" /\ idx <= Len(image_files))
        => /\ pc' = "convert"
           /\ idx' = idx + 1
           /\ Len(conversion_results') + Len(skipped_files') = idx]_vars

\* the first of two pages was skipped by the encode loop, the second was
\* encoded and then re-encoded, and the import is about to run
C25_Witness ==
  /\ tool = "JisuiArc2PDF"
  /\ pc = "import"
  /\ Len(image_files) = 2
  /\ ~args.SkipCompression
  /\ ~use_converted
  /\ skipped_files = <<image_files[1]>>
  /\ Len(conversion_results) = 1
  /\ conversion_results[1].original_path = image_files[2]
  /\ ReencodeCount = 1

\* C26: the counts of the record of a finished archive add up: Converted +
\* Originals + Skipped = Images, and Converted + Originals is the number of
\* pages handed to the import.
C26_CountConservation ==
  (tool = "JisuiArc2PDF" /\ pc \in {"finally", "returned"}) =>
    \A i \in 1..Len(log) :
      log[i].Status \in {"Success", "Success with pages skipped"} =>
        /\ log[i].Converted + log[i].Originals + log[i].Skipped
           = log[i].Images
        /\ log[i].Converted + log[i].Originals = Len(files_for_pdf)

\* C27: the destination is written by the move of the finished PDF and by
\* no other step of process_archive: it holds the prior output as long as
\* the move has not been reached, a step that fails before the move leaves
\* it as it was, and so do the handler of the failure and the cleanup.
C27_PriorOutputUntouched ==
  /\ []((tool = "JisuiArc2PDF" /\ StageRank[pc] < StageRank["move"]) =>
          output_pdf = "old")
  /\ [][(tool = "JisuiArc2PDF" /\ pc' # "call" /\ output_pdf' # output_pdf)
        => pc = "move"]_vars
  /\ [][(tool = "JisuiArc2PDF" /\ pc' = "except" /\ pc # "move")
        => output_pdf' = "old"]_vars
  /\ [][(tool = "JisuiArc2PDF" /\ pc \in {"except", "finally"})
        => output_pdf' = output_pdf]_vars

\* the call has returned after the linearizer failed, and the prior output
\* is in place
C27_Witness ==
  /\ tool = "JisuiArc2PDF"
  /\ pc = "returned"
  /\ args.Linearize
  /\ exception = "CalledProcessError"
  /\ imported # {}
  /\ output_pdf = "old"

\* C28 (DecideSpec): once the selection is made for encoded pages whose
\* original sizes add up to zero, the original set is used when
\* --TotalCompressionThreshold is given, whatever its value and whatever the
\* converted total, and the converted set is used when it is not given.
C28_ZeroOriginalTotal ==
  (/\ pc # "convert"
   /\ conversion_results # <<>>
   /\ SumOf(conversion_results, "original_size") = 0)
  => (use_converted <=> args.TotalCompressionThreshold = None)

\* with a threshold of 110 the original set was chosen for pages of no
\* original size and a positive converted total
C28_Witness ==
  /\ pc = "fallback"
  /\ args.TotalCompressionThreshold = <<110, 1>>
  /\ conversion_results # <<>>
  /\ total_original_size = 0
  /\ total_converted_size > 0
  /\ ~use_converted

====
